---- MODULE Spec2Model ----
(***************************************************************************)
(* Event manager API: events, permissions and the versioned history log.  *)
(* The relational store (events / permissions / histories tables) is the  *)
(* state; every service function of app/services is one action.           *)
(***************************************************************************)
EXTENDS Integers, Sequences, FiniteSets, Bags, TLC

\* ------------------------------------------------------------------ bounds
NumUsers == 2
MaxEvents == 2
MaxTime == 2
MaxCalls == 4
MaxBatch == 2
MaxItems == 1
NumWorkers == 2
NumShareUsers == 3
MaxShare == 2
MaxShareCalls == 3
NumProcesses == 1
NumSockets == 2
MaxNotifyCalls == 2
MaxPushes == 2
MaxTokens == 3
NumDeliverySockets == 3

\* ------------------------------------------------------------- value sets
Users == 1..NumUsers
EventIds == 1..MaxEvents
Times == 0..MaxTime
Workers == 1..NumWorkers
Processes == 1..NumProcesses
Sockets == 1..NumSockets
DeliverySockets == 1..NumDeliverySockets

\* Python None inside the string-typed nullable columns
Null == "None"

OWNER == "Owner"
EDITOR == "Editor"
VIEWER == "Viewer"
PermissionRole == {OWNER, EDITOR, VIEWER}

Titles == {"A", "B"}
Descriptions == {Null, "d"}

FieldNames ==
  {"title", "description", "start_time", "end_time", "location",
   "is_recurring", "recurrence_pattern"}

\* the closed set of outcomes of a service call
OK == "ok"
Conflict == "Conflict"
Forbidden == "Forbidden"
NotFound == "NotFound"
ServiceUnavailable == "ServiceUnavailable"

\* a history row is identified by <<event id, position of insertion>>
NoVersion == <<0, 0>>
\* the event id recorded for a call that names no event
NoEvent == NoVersion[1]

\* ------------------------------------------------------------ conversions
\* datetime.isoformat(): the snapshot stores a timestamp as a string
isoformat(t) == ToString(t)

\* datetime.fromisoformat(): parse the string back into a temporal value
fromisoformat(s) == CHOOSE t \in Times : ToString(t) = s

\* str(uuid)
str(u) == ToString(u)

\* --------------------------------------------------------------- inputs
\* EventCreate after validation (check_times: end_time > start_time)
\* (a new event is titled "A" and leaves the optional fields at their defaults)
EventCreate ==
  { [title |-> "A", description |-> Null, start_time |-> s, end_time |-> e,
     location |-> Null, is_recurring |-> FALSE, recurrence_pattern |-> Null] :
       s \in Times, e \in Times }

ValidEventCreate == { d \in EventCreate : d.end_time > d.start_time }

\* EventUpdate.dict(exclude_unset=True): a partial field map; EventUpdate has
\* no check_times validator
EventUpdate ==
  { [f \in {"title"} |-> "B"], [f \in {"description"} |-> "d"] }
  \cup { [f \in {"start_time"} |-> 0], [f \in {"start_time"} |-> MaxTime] }
  \cup { [f \in {"start_time", "end_time"} |->
            IF f = "start_time" THEN p[1] ELSE p[2]] :
              p \in { q \in Times \X Times : q[1] < q[2] } }

\* --------------------------------------------------------------- state
VARIABLES
  events,        \* events table: event id -> row
  permissions,   \* permissions table: bag of rows [event_id, user_id, role]
  histories,     \* histories table: event id -> rows in insertion order
  nextEventId,   \* ids handed out so far (uuid4 never repeats)
  published,     \* messages the last call published on the broker channel
  txns,          \* requests in flight: worker -> session state
  last,          \* the last call: operation, arguments, outcome
  calls,         \* number of calls that were carried out so far
  listening,     \* process -> its redis_listener is subscribed to the channel
  queue,         \* process -> messages its subscription holds, oldest first
  dispatch,      \* process -> position of the listener inside a dispatch
  connections,   \* process -> active_ws_connections: user id -> sockets
  received,      \* socket -> notifications sent to it, oldest first
  broken,        \* sockets whose peer is gone: a send to them raises
  logged,        \* kinds of error the listeners have logged so far
  auth           \* accounts that are active, refresh tokens issued so far
                 \* (with the token each was rotated from), and the
                 \* refresh:jti keys the token store holds

vars == <<events, permissions, histories, nextEventId, published, txns, last,
          calls, listening, queue, dispatch, connections, received, broken,
          logged, auth>>
push == <<listening, queue, dispatch, connections, received, broken, logged,
          auth>>
db == <<events, permissions, histories, nextEventId>>

Idle == [pc |-> "idle"]

\* the listener between two messages
Waiting == [pc |-> "waiting"]

Call(op, user, event_id, version_id, result) ==
  [op |-> op, user |-> user, event_id |-> event_id,
   version_id |-> version_id, result |-> result]

\* a failing call writes nothing and publishes nothing
\* A rejected call leaves the store as it was, so a behaviour is followed up
\* to its first rejected call: the calls after it are those of the state
\* before it. The same holds for a call that only reads (diff_versions).
Ready == last.result = OK /\ last.op # "diff_versions"

\* a call that is carried out: it is counted against MaxCalls
\* redis publish: every subscription that exists at that moment gets a copy
Broadcast(msgs) ==
  /\ queue' = [p \in Processes |->
                 IF listening[p] THEN queue[p] \o msgs ELSE queue[p]]
  /\ UNCHANGED <<listening, dispatch, connections, received, broken, logged,
                 auth>>

Done(op, user, event_id, version_id) ==
  /\ calls < MaxCalls
  /\ calls' = calls + 1
  /\ last' = Call(op, user, event_id, version_id, OK)
  /\ Broadcast(published')

Fail(op, user, event_id, version_id, result) ==
  /\ last' = Call(op, user, event_id, version_id, result)
  /\ published' = << >>
  /\ UNCHANGED <<db, txns, calls, push>>

\* a grant_event_permissions call is recorded with its list of entries
GrantCall(user, event_id, items, result) ==
  [op |-> "grant_event_permissions", user |-> user, event_id |-> event_id,
   version_id |-> NoVersion, result |-> result, items |-> items]

GrantDone(user, event_id, items) ==
  /\ calls < MaxCalls
  /\ calls' = calls + 1
  /\ last' = GrantCall(user, event_id, items, OK)
  /\ Broadcast(published')

GrantFail(user, event_id, items, result) ==
  /\ last' = GrantCall(user, event_id, items, result)
  /\ published' = << >>
  /\ UNCHANGED <<db, txns, calls, push>>

\* sockets are the connection objects the run can see
InitWith(sockets) ==
  /\ events = << >>
  /\ permissions = EmptyBag
  /\ histories = << >>
  /\ nextEventId = 1
  /\ published = << >>
  /\ txns = [w \in Workers |-> Idle]
  /\ last = Call("init", 0, NoEvent, NoVersion, OK)
  /\ calls = 0
  /\ listening = [p \in Processes |-> FALSE]
  /\ queue = [p \in Processes |-> << >>]
  /\ dispatch = [p \in Processes |-> Waiting]
  /\ connections = [p \in Processes |-> << >>]
  /\ received = [w \in sockets |-> << >>]
  /\ broken = {}
  /\ logged = {}
  /\ auth = [active |-> Users, issued |-> << >>, rotated |-> << >>, jtis |-> {}]

Init == InitWith(Sockets)

\* ------------------------------------------------------------ helpers
\* extend or overwrite one entry of a table keyed by event id
Put(table, id, row) ==
  [k \in DOMAIN table \cup {id} |-> IF k = id THEN row ELSE table[k]]

\* (mutant: the delete takes the rows of every id with it)
DropAll(table, id) == << >>

Drop(table, id) == [k \in DOMAIN table \ {id} |-> table[k]]

\* rows matched by get_user_event_permission's SELECT
PermRows(perms, user_id, event_id) ==
  { p \in BagToSet(perms) : p.user_id = user_id /\ p.event_id = event_id }

\* roles get_user_event_permission can return; Null when no row matches
get_user_event_permission(perms, user_id, event_id) ==
  IF PermRows(perms, user_id, event_id) = {}
  THEN {Null}
  ELSE { p.role : p \in PermRows(perms, user_id, event_id) }

\* (mutant: the comparison taken with closed bounds)
OverlapsClosed(ev, start_time, end_time) ==
  ev.start_time <= end_time /\ ev.end_time >= start_time

\* the WHERE clause of the conflict query: half-open interval overlap
Overlaps(ev, start_time, end_time) ==
  ev.start_time < end_time /\ ev.end_time > start_time

\* conflict detection of create_event / create_events_batch
CreateConflict(evs, user_id, data) ==
  \E id \in DOMAIN evs :
    /\ evs[id].owner_id = user_id
    /\ Overlaps(evs[id], data.start_time, data.end_time)

\* (mutant: start_time recorded from the wrong attribute)
SnapshotWrongStart(ev) ==
  [title |-> ev.title,
   description |-> ev.description,
   start_time |-> isoformat(ev.end_time),
   end_time |-> isoformat(ev.end_time),
   location |-> ev.location,
   is_recurring |-> ev.is_recurring,
   recurrence_pattern |-> ev.recurrence_pattern,
   owner_id |-> str(ev.owner_id)]

\* the snapshot dict every history row stores
Snapshot(ev) ==
  [title |-> ev.title,
   description |-> ev.description,
   start_time |-> isoformat(ev.start_time),
   end_time |-> isoformat(ev.end_time),
   location |-> ev.location,
   is_recurring |-> ev.is_recurring,
   recurrence_pattern |-> ev.recurrence_pattern,
   owner_id |-> str(ev.owner_id)]

HistoryRow(version, data, changed_by) ==
  [version |-> version, data |-> data, changed_by |-> changed_by]

\* Event(**data, owner_id=user_id)
NewEvent(data, user_id) ==
  [title |-> data.title,
   description |-> data.description,
   start_time |-> data.start_time,
   end_time |-> data.end_time,
   location |-> data.location,
   is_recurring |-> data.is_recurring,
   recurrence_pattern |-> data.recurrence_pattern,
   owner_id |-> user_id]

PermissionRow(user_id, event_id, role) ==
  [event_id |-> event_id, user_id |-> user_id, role |-> role]

\* ------------------------------------------------------------ create_event
CreateEvent(user_id, data) ==
  /\ Ready
  /\ nextEventId <= MaxEvents
  /\ IF CreateConflict(events, user_id, data)
     THEN Fail("create_event", user_id, NoEvent, NoVersion, Conflict)
     ELSE /\ events' = Put(events, nextEventId, NewEvent(data, user_id))
          /\ permissions' =
               permissions (+) SetToBag({PermissionRow(user_id, nextEventId, OWNER)})
          /\ histories' =
               Put(histories, nextEventId,
                   << HistoryRow(1, Snapshot(NewEvent(data, user_id)), user_id) >>)
          /\ nextEventId' = nextEventId + 1
          /\ published' = << >>
          /\ Done("create_event", user_id, nextEventId, NoVersion)
          /\ UNCHANGED txns

\* ----------------------------------------------------- create_events_batch
\* the loop body: conflict query (it sees the rows flushed earlier in the same
\* session), then Event(...) is added and flushed
\* (mutant: the conflict query misses the events added earlier in the batch)
BatchInsertPersistedOnly(evs, user_id, data_list, id) ==
  IF \E i \in 1..Len(data_list) : CreateConflict(evs, user_id, data_list[i])
  THEN [ok |-> FALSE, events |-> evs]
  ELSE [ok |-> TRUE,
        events |->
          [k \in DOMAIN evs \cup (id .. (id + Len(data_list) - 1)) |->
             IF k \in DOMAIN evs THEN evs[k]
             ELSE NewEvent(data_list[k - id + 1], user_id)]]

RECURSIVE BatchInsert(_, _, _, _)
BatchInsert(evs, user_id, data_list, id) ==
  IF data_list = << >>
  THEN [ok |-> TRUE, events |-> evs]
  ELSE IF CreateConflict(evs, user_id, Head(data_list))
       THEN [ok |-> FALSE, events |-> evs]
       ELSE BatchInsert(Put(evs, id, NewEvent(Head(data_list), user_id)),
                        user_id, Tail(data_list), id + 1)

\* history rows create_events_batch adds for a created event: the loop adds
\* the Event and its Owner Permission only
BatchHistory(ev, user_id) == << >>

CreateEventsBatch(user_id, data_list) ==
  /\ Ready
  /\ nextEventId <= MaxEvents
  /\ LET run == BatchInsert(events, user_id, data_list, nextEventId)
         ids == nextEventId .. (nextEventId + Len(data_list) - 1)
     IN  /\ run.ok => nextEventId + Len(data_list) - 1 <= MaxEvents
         /\ IF ~run.ok
             THEN Fail("create_events_batch", user_id, NoEvent, NoVersion, Conflict)
             ELSE /\ events' = run.events
                  /\ permissions' =
                       permissions (+)
                         SetToBag({PermissionRow(user_id, id, OWNER) : id \in ids})
                  /\ histories' =
                       [id \in DOMAIN histories \cup ids |->
                          IF id \in ids THEN BatchHistory(run.events[id], user_id)
                          ELSE histories[id]]
                  /\ nextEventId' = nextEventId + Len(data_list)
                  /\ published' = << >>
                  /\ Done("create_events_batch", user_id,
                          IF data_list = << >> THEN NoEvent ELSE nextEventId,
                          NoVersion)
                  /\ UNCHANGED txns

\* ------------------------------------------------------------ update_event
\* (mutant: any permission row is taken as enough)
MayUpdateAnyRole(role) == role \in PermissionRole

\* roles that may update an event
MayUpdate(role) == role \in {OWNER, EDITOR}

\* the conflict query of update_event: run only when both times are supplied
UpdateConflict(evs, user_id, event_id, data) ==
  /\ "start_time" \in DOMAIN data
  /\ "end_time" \in DOMAIN data
  /\ \E id \in DOMAIN evs :
       /\ evs[id].owner_id = user_id
       /\ id # event_id
       /\ Overlaps(evs[id], data["start_time"], data["end_time"])

\* `except Exception` around the body of update_event: whatever is raised
\* inside (ConflictError and NotFoundError included) leaves as this kind
UpdateEventError(raised) == ServiceUnavailable

\* version query: ORDER BY version DESC LIMIT 1, then 1 if None else last + 1
RECURSIVE MaxVersion(_)
MaxVersion(rows) ==
  IF rows = << >> THEN 0
  ELSE LET m == MaxVersion(Tail(rows))
       IN  IF Head(rows).version > m THEN Head(rows).version ELSE m

\* (mutant: the numbering starts again with every update)
NextVersionRestart(rows) == 1

NextVersion(rows) == IF rows = << >> THEN 1 ELSE MaxVersion(rows) + 1

\* for field, val in data.items(): setattr(event, field, val)
ApplyUpdate(ev, data) ==
  [f \in DOMAIN ev |-> IF f \in DOMAIN data THEN data[f] ELSE ev[f]]

UpdateEvent(user_id, event_id, data) ==
  /\ Ready
  /\ \E role \in get_user_event_permission(permissions, user_id, event_id) :
    IF ~MayUpdate(role)
    THEN Fail("update_event", user_id, event_id, NoVersion, Forbidden)
    ELSE IF UpdateConflict(events, user_id, event_id, data)
    THEN Fail("update_event", user_id, event_id, NoVersion,
              UpdateEventError(Conflict))
    ELSE IF event_id \notin DOMAIN events
    THEN Fail("update_event", user_id, event_id, NoVersion,
              UpdateEventError(NotFound))
    ELSE /\ histories' =
              [histories EXCEPT ![event_id] =
                 Append(@, HistoryRow(NextVersion(@),
                                      Snapshot(events[event_id]), user_id))]
         /\ events' = [events EXCEPT ![event_id] = ApplyUpdate(@, data)]
         /\ published' = << >>
         /\ Done("update_event", user_id, event_id, NoVersion)
         /\ UNCHANGED <<permissions, nextEventId, txns>>

\* ------------------------------------------------------------ delete_event
\* roles that may delete an event
MayDelete(role) == role = OWNER

\* get_event_participant_user_ids: SELECT user_id FROM permissions
get_event_participant_user_ids(perms, event_id) ==
  { str(p.user_id) : p \in { q \in BagToSet(perms) : q.event_id = event_id } }

\* ON DELETE CASCADE of permissions.event_id
CascadePermissions(perms, event_id) ==
  [p \in { q \in BagToSet(perms) : q.event_id # event_id } |-> perms[p]]

\* notify_event_users_for_ids: nothing is published for an empty target list
Notify(user_ids, notification) ==
  IF user_ids = {} THEN << >>
  ELSE << [user_ids |-> user_ids, notification |-> notification] >>

DeleteEvent(user_id, event_id) ==
  /\ Ready
  /\ IF event_id \notin DOMAIN events
     THEN Fail("delete_event", user_id, event_id, NoVersion, NotFound)
     ELSE \E role \in get_user_event_permission(permissions, user_id, event_id) :
       IF ~MayDelete(role)
       THEN Fail("delete_event", user_id, event_id, NoVersion, Forbidden)
       ELSE /\ events' = Drop(events, event_id)
            /\ permissions' = CascadePermissions(permissions, event_id)
            /\ histories' = Drop(histories, event_id)
            \* the participants are read after the commit of the delete
            /\ published' =
                 Notify(get_event_participant_user_ids(permissions', event_id)
                          \ {str(user_id)},
                        [type |-> "event_deleted", event_id |-> event_id,
                         initiator_id |-> user_id, user_id |-> Null, role |-> Null])
            /\ Done("delete_event", user_id, event_id, NoVersion)
            /\ UNCHANGED <<nextEventId, txns>>

\* ------------------------------------------------- grant_event_permissions
\* items: a list of [user_id, role]
PermissionCreate == [user_id : Users, role : PermissionRole]

RECURSIVE GrantLoop(_, _, _, _, _)
RECURSIVE GrantLoopSkipDuplicate(_, _, _, _, _)
\* (mutant: an entry whose user already has a permission is passed over)
GrantLoopSkipDuplicate(perms, current_user_id, event_id, items, created) ==
  IF items = << >>
  THEN [ok |-> TRUE, created |-> created]
  ELSE LET uid == Head(items).user_id
           role == Head(items).role
       IN  IF \/ uid = current_user_id
              \/ PermRows(perms, uid, event_id) # {}
              \/ \E i \in 1..Len(created) : created[i].user_id = uid
           THEN GrantLoopSkipDuplicate(perms, current_user_id, event_id,
                                       Tail(items), created)
           ELSE GrantLoopSkipDuplicate(perms, current_user_id, event_id,
                                       Tail(items),
                                       Append(created,
                                              PermissionRow(uid, event_id, role)))

\* returns the rows to create, or ok = FALSE once a duplicate is met; the
\* duplicate query sees the rows added earlier in the same session
GrantLoop(perms, current_user_id, event_id, items, created) ==
  IF items = << >>
  THEN [ok |-> TRUE, created |-> created]
  ELSE LET uid == Head(items).user_id
           role == Head(items).role
       IN  IF uid = current_user_id
           THEN GrantLoop(perms, current_user_id, event_id, Tail(items), created)
           ELSE IF \/ PermRows(perms, uid, event_id) # {}
                   \/ \E i \in 1..Len(created) : created[i].user_id = uid
                THEN [ok |-> FALSE, created |-> created]
                ELSE GrantLoop(perms, current_user_id, event_id, Tail(items),
                               Append(created, PermissionRow(uid, event_id, role)))

RECURSIVE SeqToBag(_)
SeqToBag(rows) ==
  IF rows = << >> THEN EmptyBag
  ELSE SetToBag({Head(rows)}) (+) SeqToBag(Tail(rows))

\* (mutant: each message is addressed to the grantee and to the actor)
GrantNotificationsWithActor(created, current_user_id, event_id) ==
  [i \in 1..Len(created) |->
     [user_ids |-> {str(created[i].user_id), str(current_user_id)},
      notification |->
        [type |-> "permission_granted",
         event_id |-> str(event_id),
         initiator_id |-> str(current_user_id),
         user_id |-> str(created[i].user_id),
         role |-> created[i].role]]]

\* one message per created row, published after the commit, addressed to the
\* grantee alone
GrantNotifications(created, current_user_id, event_id) ==
  [i \in 1..Len(created) |->
     [user_ids |-> {str(created[i].user_id)},
      notification |->
        [type |-> "permission_granted",
         event_id |-> str(event_id),
         initiator_id |-> str(current_user_id),
         user_id |-> str(created[i].user_id),
         role |-> created[i].role]]]

GrantEventPermissions(current_user_id, event_id, items) ==
  /\ Ready
  /\ \E owner_role \in
       get_user_event_permission(permissions, current_user_id, event_id) :
    IF owner_role # OWNER
    THEN GrantFail(current_user_id, event_id, items, Forbidden)
    ELSE LET run == GrantLoop(permissions, current_user_id, event_id,
                              items, << >>)
         IN  IF ~run.ok
             THEN GrantFail(current_user_id, event_id, items, Conflict)
             ELSE /\ permissions' = permissions (+) SeqToBag(run.created)
                  /\ published' =
                       GrantNotifications(run.created, current_user_id, event_id)
                  /\ GrantDone(current_user_id, event_id, items)
                  /\ UNCHANGED <<events, histories, nextEventId, txns>>

\* ------------------------------------------------------------- get_event
\* NotFound if the event is absent, Forbidden without a Permission row
get_event(evs, perms, user_id, event_id) ==
  IF event_id \notin DOMAIN evs THEN NotFound
  ELSE IF PermRows(perms, user_id, event_id) = {} THEN Forbidden
  ELSE OK

\* ------------------------------------------------ rollback_event_to_version
\* ids of the rows of the histories table
VersionIds(hist) ==
  UNION { { <<e, i>> : i \in 1..Len(hist[e]) } : e \in DOMAIN hist }

\* get_event_version: SELECT ... WHERE History.id == version_id
\* (the result as a set: empty when no row has this id)
get_event_version(hist, version_id) ==
  IF version_id \in VersionIds(hist)
  THEN { hist[version_id[1]][version_id[2]] }
  ELSE {}

\* the loop that applies the snapshot: a field whose recorded value is None
\* is skipped; the two timestamps are parsed back from their strings
ApplySnapshot(ev, data) ==
  [title |-> IF data.title # Null THEN data.title ELSE ev.title,
   description |->
     IF data.description # Null THEN data.description ELSE ev.description,
   start_time |->
     IF data.start_time # Null THEN fromisoformat(data.start_time)
     ELSE ev.start_time,
   end_time |->
     IF data.end_time # Null THEN fromisoformat(data.end_time)
     ELSE ev.end_time,
   location |-> IF data.location # Null THEN data.location ELSE ev.location,
   \* a recorded boolean is never None
   is_recurring |-> data.is_recurring,
   recurrence_pattern |->
     IF data.recurrence_pattern # Null THEN data.recurrence_pattern
     ELSE ev.recurrence_pattern,
   owner_id |-> ev.owner_id]

\* the snapshot stored by the rollback: built from the event object after
\* the loop above has assigned the fields
RollbackSnapshot(before, after) == Snapshot(after)

\* `except Exception` around the body of rollback_event_to_version
RollbackError(raised) == ServiceUnavailable

\* POST /{event_id}/rollback/{version_id}: get_event, then the service call
RollbackVersion(user_id, event_id, version_id) ==
  /\ Ready
  /\ IF get_event(events, permissions, user_id, event_id) # OK
     THEN Fail("rollback", user_id, event_id, version_id,
               get_event(events, permissions, user_id, event_id))
     ELSE IF get_event_version(histories, version_id) = {}
     THEN Fail("rollback", user_id, event_id, version_id, RollbackError(NotFound))
     ELSE LET version == CHOOSE v \in get_event_version(histories, version_id) : TRUE
              after == ApplySnapshot(events[event_id], version.data)
          IN           /\ events' = [events EXCEPT ![event_id] = after]
              /\ histories' =
                   [histories EXCEPT ![event_id] =
                      Append(@, HistoryRow(NextVersion(@),
                                           RollbackSnapshot(events[event_id], after),
                                           user_id))]
              /\ published' = << >>
              /\ Done("rollback", user_id, event_id, version_id)
              /\ UNCHANGED <<permissions, nextEventId, txns>>

\* ------------------------------------------------ get_diff_between_versions
\* (mutant: the second snapshot is returned whole)
jsondiffWhole(d1, d2) == d2

\* jsondiff.diff(d1, d2) of two snapshots, which have the same keys: the keys
\* whose values differ, each with the value of the second snapshot
jsondiff(d1, d2) ==
  [k \in { f \in DOMAIN d2 : f \notin DOMAIN d1 \/ d1[f] # d2[f] } |-> d2[k]]

\* `except Exception` around the body of get_diff_between_versions
DiffError(raised) == ServiceUnavailable

get_diff_between_versions(hist, version_id1, version_id2) ==
  IF \/ get_event_version(hist, version_id1) = {}
     \/ get_event_version(hist, version_id2) = {}
  THEN [result |-> DiffError(NotFound), diff |-> << >>]
  ELSE LET v1 == CHOOSE v \in get_event_version(hist, version_id1) : TRUE
           v2 == CHOOSE v \in get_event_version(hist, version_id2) : TRUE
       IN  [result |-> OK, diff |-> jsondiff(v1.data, v2.data)]

\* a diff call is recorded with both version ids and the diff it returned
DiffCall(user, event_id, version_id1, version_id2, result, diff) ==
  [op |-> "diff_versions", user |-> user, event_id |-> event_id,
   version_id |-> version_id1, version_id2 |-> version_id2,
   result |-> result, diff |-> diff]

\* GET /{event_id}/diff/{version_id1}/{version_id2}: get_event, then the
\* service call; nothing is written
DiffVersions(user_id, event_id, version_id1, version_id2) ==
  /\ Ready
  /\ IF get_event(events, permissions, user_id, event_id) # OK
     THEN Fail("diff_versions", user_id, event_id, version_id1,
               get_event(events, permissions, user_id, event_id))
     ELSE LET r == get_diff_between_versions(histories, version_id1, version_id2)
          IN  /\ calls < MaxCalls
              /\ last' = DiffCall(user_id, event_id, version_id1, version_id2,
                                  r.result, r.diff)
              /\ published' = << >>
              /\ UNCHANGED <<db, txns, calls, push>>

\* ---------------------------------------------------------------- inputs
\* the empty batch and the batches of MaxBatch events
BatchLists == UNION { [1..n -> ValidEventCreate] : n \in {0, MaxBatch} }

ItemLists == UNION { [1..n -> PermissionCreate] : n \in 0..MaxItems }

\* the ids of the stored rows and one id that names no row
KnownVersionIds == VersionIds(histories) \cup {NoVersion}

\* the ids of the versions of one event and one id that names no row
VersionIdsOf(event_id) ==
  { v \in VersionIds(histories) : v[1] = event_id } \cup {NoVersion}

Next ==
  \/ \E u \in Users, d \in ValidEventCreate : CreateEvent(u, d)
  \/ \E u \in Users, l \in BatchLists : CreateEventsBatch(u, l)
  \/ \E u \in Users, e \in EventIds, d \in EventUpdate : UpdateEvent(u, e, d)
  \/ \E u \in Users, e \in EventIds : DeleteEvent(u, e)
  \/ \E u \in Users, e \in EventIds, l \in ItemLists :
       GrantEventPermissions(u, e, l)
  \/ \E u \in Users, e \in EventIds, v \in KnownVersionIds :
       RollbackVersion(u, e, v)
  \/ \E u \in Users, e \in EventIds :
       \E v1 \in VersionIdsOf(e), v2 \in VersionIdsOf(e) :
         DiffVersions(u, e, v1, v2)

Spec == Init /\ [][Next]_vars


\* C34: a History row is immutable once written: in every step the rows an
\* event already has stay, in their order and with their version, snapshot
\* and attribution, and the rows of an event disappear only in a delete of
\* that event, together with the event.
C34_HistoryRowsAreImmutable ==
  [][ \A e \in DOMAIN histories :
        IF e \in DOMAIN histories'
        THEN /\ Len(histories'[e]) >= Len(histories[e])
             /\ SubSeq(histories'[e], 1, Len(histories[e])) = histories[e]
        ELSE /\ e \notin DOMAIN events'
             /\ last'.op = "delete_event"
             /\ last'.event_id = e
    ]_vars

\* an event with several History rows is still there after another event,
\* rows included, was deleted
C34_Witness ==
  /\ last.op = "delete_event"
  /\ last.result = OK
  /\ last.event_id \notin DOMAIN histories
  /\ \E e \in DOMAIN histories : Len(histories[e]) >= 2

\* C37: a rollback of event E applies only a snapshot of E: a rollback call
\* on E that names a History row of another event is rejected and leaves
\* the events and their histories as they were.
C37_RollbackAppliesOwnSnapshot ==
  [][ ( /\ last'.op = "rollback"
        /\ last' # last \/ calls' # calls
        /\ last'.version_id \in VersionIds(histories)
        /\ last'.version_id[1] # last'.event_id ) =>
        ( /\ last'.result # OK
          /\ events' = events
          /\ histories' = histories )
    ]_vars

\* ------------------------------------------------ reading the history
\* GET /{event_id}/history/{version_id}: get_event on the event of the path,
\* then get_event_version; the row is the response
GetVersion(user_id, event_id, version_id) ==
  /\ Ready
  /\ IF get_event(events, permissions, user_id, event_id) # OK
     THEN Fail("get_version", user_id, event_id, version_id,
               get_event(events, permissions, user_id, event_id))
     ELSE IF get_event_version(histories, version_id) = {}
     THEN Fail("get_version", user_id, event_id, version_id, NotFound)
     ELSE /\ calls < MaxCalls
          /\ last' = [op |-> "get_version", user |-> user_id,
                      event_id |-> event_id, version_id |-> version_id,
                      result |-> OK,
                      version |-> CHOOSE v \in get_event_version(histories, version_id) : TRUE]
          /\ published' = << >>
          /\ UNCHANGED <<db, txns, calls, push>>

\* events are created and updated, and their history is read under any
\* event id and any version ids
NextRead ==
  \/ \E u \in Users, d \in ValidEventCreate : CreateEvent(u, d)
  \/ \E u \in Users, e \in EventIds, d \in EventUpdate : UpdateEvent(u, e, d)
  \/ \E u \in Users, e \in EventIds, v \in KnownVersionIds : GetVersion(u, e, v)
  \/ \E u \in Users, e \in EventIds :
       \E v1 \in KnownVersionIds, v2 \in KnownVersionIds :
         DiffVersions(u, e, v1, v2)

SpecRead == Init /\ [][NextRead]_vars

\* C38: what the history endpoints return comes from History rows of events
\* the reader holds a permission on: a version that is returned, and both
\* versions of a diff that is returned, belong to such events.
C38_HistoryReadsNeedPermission ==
  [][ /\ ( /\ last' # last
           /\ last'.op = "get_version"
           /\ last'.result = OK ) =>
           PermRows(permissions, last'.user, last'.version_id[1]) # {}
      /\ ( /\ last' # last
           /\ last'.op = "diff_versions"
           /\ last'.result = OK ) =>
           /\ PermRows(permissions, last'.user, last'.version_id[1]) # {}
           /\ PermRows(permissions, last'.user, last'.version_id2[1]) # {}
    ]_vars

\* ====================================================================
\* Concurrent requests: each worker runs one request in its own session and
\* transaction (READ COMMITTED, the engine's default); a request is split at
\* the awaits between its reads and its commit.
\* ====================================================================

\* the row lock an uncommitted UPDATE of an events row holds until commit
LockedBy(w, event_id) ==
  txns[w].pc = "rollback_flushed" /\ txns[w].event_id = event_id
    /\ txns[w].dirty

LockedByOther(w, event_id) ==
  \E o \in Workers \ {w} : LockedBy(o, event_id)

\* the UPDATE a flush emits sets the attributes whose value was changed
\* on the loaded object
FlushUpdate(row, loaded, assigned) ==
  [f \in DOMAIN row |-> IF assigned[f] # loaded[f] THEN assigned[f] ELSE row[f]]

\* update_event up to the version query: permission check, conflict query,
\* load of the event, snapshot, SELECT of the last version
UpdateBegin(w, user_id, event_id, data) ==
  /\ Ready
  /\ txns[w] = Idle
  /\ \E role \in get_user_event_permission(permissions, user_id, event_id) :
       IF ~MayUpdate(role)
       THEN Fail("update_event", user_id, event_id, NoVersion, Forbidden)
       ELSE IF UpdateConflict(events, user_id, event_id, data)
       THEN Fail("update_event", user_id, event_id, NoVersion,
                 UpdateEventError(Conflict))
       ELSE IF event_id \notin DOMAIN events
       THEN Fail("update_event", user_id, event_id, NoVersion,
                 UpdateEventError(NotFound))
       ELSE /\ txns' =
                 [txns EXCEPT ![w] =
                    [pc |-> "update_read", user |-> user_id,
                     event_id |-> event_id,
                     loaded |-> events[event_id],
                     assigned |-> ApplyUpdate(events[event_id], data),
                     old_data |-> Snapshot(events[event_id]),
                     next_version |-> NextVersion(histories[event_id])]]
            /\ UNCHANGED <<db, published, last, calls, push>>

\* db.commit() of update_event: the flush inserts the History row and
\* updates the event row, then the transaction commits
UpdateCommit(w) ==
  /\ Ready
  /\ txns[w].pc = "update_read"
  /\ LET t == txns[w] IN
       /\ t.event_id \in DOMAIN events
       /\ (t.assigned # t.loaded) => ~LockedByOther(w, t.event_id)
       /\ histories' =
            [histories EXCEPT ![t.event_id] =
               Append(@, HistoryRow(t.next_version, t.old_data, t.user))]
       /\ events' =
            [events EXCEPT ![t.event_id] = FlushUpdate(@, t.loaded, t.assigned)]
       /\ txns' = [txns EXCEPT ![w] = Idle]
       /\ published' = << >>
       /\ Done("update_event", t.user, t.event_id, NoVersion)
       /\ UNCHANGED <<permissions, nextEventId>>

\* the rollback endpoint up to the assignment of the snapshot's fields:
\* get_event, load of the version and of the event
RollbackLoad(w, user_id, event_id, version_id) ==
  /\ Ready
  /\ txns[w] = Idle
  /\ IF get_event(events, permissions, user_id, event_id) # OK
     THEN Fail("rollback", user_id, event_id, version_id,
               get_event(events, permissions, user_id, event_id))
     ELSE IF get_event_version(histories, version_id) = {}
     THEN Fail("rollback", user_id, event_id, version_id,
               RollbackError(NotFound))
     ELSE LET version ==
                CHOOSE v \in get_event_version(histories, version_id) : TRUE
          IN  /\ txns' =
                   [txns EXCEPT ![w] =
                      [pc |-> "rollback_loaded", user |-> user_id,
                       event_id |-> event_id, version_id |-> version_id,
                       loaded |-> events[event_id],
                       assigned |-> ApplySnapshot(events[event_id], version.data)]]
              /\ UNCHANGED <<db, published, last, calls, push>>

\* the version query of the rollback: the session autoflushes the pending
\* UPDATE of the event row first (it waits for the row lock), then reads the
\* last version
RollbackFlush(w) ==
  /\ Ready
  /\ txns[w].pc = "rollback_loaded"
  /\ LET t == txns[w] IN
       /\ t.event_id \in DOMAIN events
       /\ (t.assigned # t.loaded) => ~LockedByOther(w, t.event_id)
       /\ txns' =
            [txns EXCEPT ![w] =
               [pc |-> "rollback_flushed", user |-> t.user,
                event_id |-> t.event_id, version_id |-> t.version_id,
                loaded |-> t.loaded, assigned |-> t.assigned,
                dirty |-> (t.assigned # t.loaded),
                next_version |-> NextVersion(histories[t.event_id])]]
       /\ UNCHANGED <<db, published, last, calls, push>>

\* db.commit() of the rollback
RollbackCommit(w) ==
  /\ Ready
  /\ txns[w].pc = "rollback_flushed"
  /\ LET t == txns[w] IN
       /\ t.event_id \in DOMAIN events
       /\ histories' =
            [histories EXCEPT ![t.event_id] =
               Append(@, HistoryRow(t.next_version,
                                    RollbackSnapshot(t.loaded, t.assigned),
                                    t.user))]
       /\ events' =
            [events EXCEPT ![t.event_id] = FlushUpdate(@, t.loaded, t.assigned)]
       /\ txns' = [txns EXCEPT ![w] = Idle]
       /\ published' = << >>
       /\ Done("rollback", t.user, t.event_id, t.version_id)
       /\ UNCHANGED <<permissions, nextEventId>>

\* the updates the concurrent requests send: one field each
ConcUpdate == { d \in EventUpdate : DOMAIN d \in {{"title"}, {"description"}} }

\* the events the concurrent requests work on span the whole day
ConcCreate ==
  { d \in ValidEventCreate : d.start_time = 0 /\ d.end_time = MaxTime }

\* events are created while no other request is in flight
CreateAlone(user_id, data) ==
  /\ \A w \in Workers : txns[w] = Idle
  /\ CreateEvent(user_id, data)

NextConc ==
  \/ \E u \in Users, d \in ConcCreate : CreateAlone(u, d)
  \/ \E w \in Workers, u \in Users, e \in EventIds, d \in ConcUpdate :
       UpdateBegin(w, u, e, d)
  \/ \E w \in Workers : UpdateCommit(w)
  \/ \E w \in Workers, u \in Users, e \in EventIds, v \in KnownVersionIds :
       RollbackLoad(w, u, e, v)
  \/ \E w \in Workers : RollbackFlush(w)
  \/ \E w \in Workers : RollbackCommit(w)

SpecConc == Init /\ [][NextConc]_vars

\* ---------------------------------------- create_event side by side
\* create_event up to db.flush(): the conflict query reads the committed
\* events (READ COMMITTED: the row another session has flushed and not yet
\* committed is not among them), then the event is added to the session
CreateBegin(w, user_id, data) ==
  /\ Ready
  /\ txns[w] = Idle
  /\ IF CreateConflict(events, user_id, data)
     THEN Fail("create_event", user_id, NoEvent, NoVersion, Conflict)
     ELSE /\ txns' = [txns EXCEPT ![w] =
                        [pc |-> "create_flushed", user |-> user_id,
                         data |-> data]]
          /\ UNCHANGED <<db, published, last, calls, push>>

\* db.commit() of create_event: event, Owner permission and version 1
CreateCommit(w) ==
  /\ Ready
  /\ txns[w].pc = "create_flushed"
  /\ nextEventId <= MaxEvents
  /\ LET t == txns[w] IN
       /\ events' = Put(events, nextEventId, NewEvent(t.data, t.user))
       /\ permissions' =
            permissions (+) SetToBag({PermissionRow(t.user, nextEventId, OWNER)})
       /\ histories' =
            Put(histories, nextEventId,
                << HistoryRow(1, Snapshot(NewEvent(t.data, t.user)), t.user) >>)
       /\ nextEventId' = nextEventId + 1
       /\ published' = << >>
       /\ txns' = [txns EXCEPT ![w] = Idle]
       /\ Done("create_event", t.user, nextEventId, NoVersion)

NextCreateConc ==
  \/ \E w \in Workers, u \in Users, d \in ValidEventCreate : CreateBegin(w, u, d)
  \/ \E w \in Workers : CreateCommit(w)

SpecCreateConc == Init /\ [][NextCreateConc]_vars

\* ====================================================================
\* Sharing: grant_event_permissions with batches of several entries, alone
\* and as two requests that run side by side.
\* ====================================================================

\* the registered users of the sharing scenario
ShareUsers == 1..NumShareUsers

ShareItems == [user_id : ShareUsers, role : PermissionRole]

ShareLists == UNION { [1..n -> ShareItems] : n \in 0..MaxShare }

\* grant_event_permissions up to db.commit(): owner check and the loop with
\* its duplicate queries
GrantCheck(w, current_user_id, event_id, items) ==
  /\ Ready
  /\ txns[w] = Idle
  /\ \E owner_role \in
       get_user_event_permission(permissions, current_user_id, event_id) :
       IF owner_role # OWNER
       THEN GrantFail(current_user_id, event_id, items, Forbidden)
       ELSE LET run == GrantLoop(permissions, current_user_id, event_id,
                                 items, << >>)
            IN  IF ~run.ok
                THEN GrantFail(current_user_id, event_id, items, Conflict)
                ELSE /\ txns' =
                          [txns EXCEPT ![w] =
                             [pc |-> "grant_checked", user |-> current_user_id,
                              event_id |-> event_id, items |-> items,
                              created |-> run.created]]
                     /\ UNCHANGED <<db, published, last, calls, push>>

\* db.commit() of grant_event_permissions and the notifications after it;
\* the permissions table accepts a second row for one (event, user) pair
GrantCommit(w) ==
  /\ Ready
  /\ txns[w].pc = "grant_checked"
  /\ LET t == txns[w] IN
       /\ t.event_id \in DOMAIN events
       /\ permissions' = permissions (+) SeqToBag(t.created)
       /\ published' = GrantNotifications(t.created, t.user, t.event_id)
       /\ txns' = [txns EXCEPT ![w] = Idle]
       /\ GrantDone(t.user, t.event_id, t.items)
       /\ UNCHANGED <<events, histories, nextEventId>>

\* a grant that runs while no other request is in flight
GrantAlone(current_user_id, event_id, items) ==
  /\ calls < MaxShareCalls
  /\ \A w \in Workers : txns[w] = Idle
  /\ GrantEventPermissions(current_user_id, event_id, items)

\* the events that are shared
CreateShared(user_id, data) ==
  /\ calls < MaxShareCalls
  /\ CreateAlone(user_id, data)

NextShare ==
  \/ \E u \in ShareUsers, d \in ConcCreate : CreateShared(u, d)
  \/ \E u \in ShareUsers, e \in EventIds, l \in ShareLists : GrantAlone(u, e, l)

SpecShare == Init /\ [][NextShare]_vars

\* the requests that run side by side grant one role to one user
ConcShareLists == [1..1 -> PermissionCreate]

NextShareConc ==
  \/ \E u \in Users, d \in ConcCreate : CreateAlone(u, d)
  \/ \E w \in Workers, u \in Users, e \in EventIds, l \in ConcShareLists :
       GrantCheck(w, u, e, l)
  \/ \E w \in Workers : GrantCommit(w)

SpecShareConc == Init /\ [][NextShareConc]_vars

\* ====================================================================
\* Permission management: update_permission and delete_permission next to
\* grant_event_permissions.
\* ====================================================================

\* an update_permission or delete_permission call is recorded with its target
\* and, for update_permission, the role asked for
PermCall(op, user, event_id, target_user_id, role, result) ==
  [op |-> op, user |-> user, event_id |-> event_id, version_id |-> NoVersion,
   result |-> result, target_user_id |-> target_user_id, role |-> role]

PermDone(op, user, event_id, target_user_id, role) ==
  /\ calls < MaxShareCalls
  /\ calls' = calls + 1
  /\ last' = PermCall(op, user, event_id, target_user_id, role, OK)
  /\ Broadcast(published')

PermFail(op, user, event_id, target_user_id, role, result) ==
  /\ last' = PermCall(op, user, event_id, target_user_id, role, result)
  /\ published' = << >>
  /\ UNCHANGED <<db, txns, calls, push>>

\* (mutant: an Editor passes the owner check as well)
IsOwnerOrEditor(role) == role \in {OWNER, EDITOR}

\* not owner_perm or owner_perm.role != PermissionRole.OWNER, negated
IsOwner(role) == role = OWNER

\* (mutant: the actor's own row is changed like any other)
IsOwnRowNever(perm, current_user_id) == FALSE

\* perm.user_id == current_user_id
IsOwnRow(perm, current_user_id) == perm.user_id = current_user_id

\* perm.role = PermissionRole(new_role) on one row of the table
SetRole(perms, perm, new_role) ==
  (perms (-) SetToBag({perm})) (+) SetToBag({[perm EXCEPT !.role = new_role]})

\* db.delete(perm)
DeleteRow(perms, perm) == perms (-) SetToBag({perm})

UpdatePermission(current_user_id, event_id, target_user_id, new_role) ==
  /\ Ready
  /\ \E owner_role \in
       get_user_event_permission(permissions, current_user_id, event_id) :
       IF ~IsOwner(owner_role)
       THEN PermFail("update_permission", current_user_id, event_id,
                     target_user_id, new_role, Forbidden)
       ELSE IF PermRows(permissions, target_user_id, event_id) = {}
       THEN PermFail("update_permission", current_user_id, event_id,
                     target_user_id, new_role, NotFound)
       ELSE \E perm \in PermRows(permissions, target_user_id, event_id) :
              IF IsOwnRow(perm, current_user_id)
              THEN PermFail("update_permission", current_user_id, event_id,
                            target_user_id, new_role, Conflict)
              ELSE /\ permissions' = SetRole(permissions, perm, new_role)
                   /\ published' = << >>
                   /\ PermDone("update_permission", current_user_id, event_id,
                               target_user_id, new_role)
                   /\ UNCHANGED <<events, histories, nextEventId, txns>>

DeletePermission(current_user_id, event_id, target_user_id) ==
  /\ Ready
  /\ \E owner_role \in
       get_user_event_permission(permissions, current_user_id, event_id) :
       IF ~IsOwner(owner_role)
       THEN PermFail("delete_permission", current_user_id, event_id,
                     target_user_id, Null, Forbidden)
       ELSE IF PermRows(permissions, target_user_id, event_id) = {}
       THEN PermFail("delete_permission", current_user_id, event_id,
                     target_user_id, Null, NotFound)
       ELSE \E perm \in PermRows(permissions, target_user_id, event_id) :
              /\ permissions' = DeleteRow(permissions, perm)
              /\ published' = << >>
              /\ PermDone("delete_permission", current_user_id, event_id,
                          target_user_id, Null)
              /\ UNCHANGED <<events, histories, nextEventId, txns>>

\* the batches of the permission scenario: one entry each
PermLists == [1..1 -> ShareItems]

NextPerm ==
  \/ \E u \in ShareUsers, d \in ConcCreate : CreateShared(u, d)
  \/ \E u \in ShareUsers, e \in EventIds, l \in PermLists : GrantAlone(u, e, l)
  \/ \E u \in ShareUsers, e \in EventIds, t \in ShareUsers, r \in PermissionRole :
       UpdatePermission(u, e, t, r)
  \/ \E u \in ShareUsers, e \in EventIds, t \in ShareUsers :
       DeletePermission(u, e, t)

SpecPerm == Init /\ [][NextPerm]_vars

\* C39: every existing event has exactly one Permission row with role Owner,
\* and that row belongs to the user in the event's owner_id.
C39_ExactlyOneOwner ==
  \A e \in DOMAIN events :
    LET owners == { p \in BagToSet(permissions) :
                      p.event_id = e /\ p.role = OWNER }
    IN  /\ owners = {PermissionRow(events[e].owner_id, e, OWNER)}
        /\ CopiesIn(PermissionRow(events[e].owner_id, e, OWNER), permissions) = 1

\* ====================================================================
\* Faults: a call during which the database or the broker raises.
\* ====================================================================

\* where the fault strikes: db.commit() raises SQLAlchemyError; the first
\* database call after the commit raises it; redis publish raises
Faults == {"commit", "after_commit", "publish"}

\* a call that met a fault is recorded with the fault
FaultCall(op, user, event_id, fault, result) ==
  [op |-> op, user |-> user, event_id |-> event_id, version_id |-> NoVersion,
   result |-> result, fault |-> fault]

\* the call is turned away, or its transaction is rolled back
FaultFail(op, user, event_id, fault, result) ==
  /\ last' = FaultCall(op, user, event_id, fault, result)
  /\ published' = << >>
  /\ UNCHANGED <<db, txns, calls, push>>

\* (mutant: the exception of the publish leaves notify_event_users_for_ids)
PublishRaises(msgs, fault) ==
  IF fault = "publish" /\ msgs # << >>
  THEN [raised |-> TRUE, sent |-> << >>]
  ELSE [raised |-> FALSE, sent |-> msgs]

\* notify_event_users_for_ids for each message: an exception of json.dumps or
\* of the publish is logged and not raised again
PublishAll(msgs, fault) ==
  IF fault = "publish" /\ msgs # << >>
  THEN [raised |-> FALSE, sent |-> << >>]
  ELSE [raised |-> FALSE, sent |-> msgs]

\* the outcome of a call whose commit went through
AfterCommit(op, user, event_id, fault, db_calls, msgs) ==
  LET db_raised == fault = "after_commit" /\ db_calls
      out == PublishAll(msgs, fault)
  IN  /\ published' = IF db_raised THEN << >> ELSE out.sent
      /\ last' = FaultCall(op, user, event_id, fault,
                           IF db_raised THEN ServiceUnavailable
                           ELSE IF out.raised THEN "internal_error" ELSE OK)
      /\ calls' = calls + 1
      /\ Broadcast(published')
      /\ UNCHANGED txns

\* grant_event_permissions; db.refresh(p) follows the commit for each row
GrantWithFault(current_user_id, event_id, items, fault) ==
  /\ Ready
  /\ calls < MaxShareCalls
  /\ \E owner_role \in
       get_user_event_permission(permissions, current_user_id, event_id) :
       IF owner_role # OWNER
       THEN FaultFail("grant_event_permissions", current_user_id, event_id,
                      fault, Forbidden)
       ELSE LET run == GrantLoop(permissions, current_user_id, event_id,
                                 items, << >>)
            IN  IF ~run.ok
                THEN FaultFail("grant_event_permissions", current_user_id,
                               event_id, fault, Conflict)
                ELSE IF fault = "commit"
                THEN FaultFail("grant_event_permissions", current_user_id,
                               event_id, fault, ServiceUnavailable)
                ELSE /\ permissions' = permissions (+) SeqToBag(run.created)
                     /\ AfterCommit("grant_event_permissions", current_user_id,
                                    event_id, fault, run.created # << >>,
                                    GrantNotifications(run.created,
                                                       current_user_id, event_id))
                     /\ UNCHANGED <<events, histories, nextEventId>>

\* delete_event; get_event_participant_user_ids follows the commit
DeleteWithFault(user_id, event_id, fault) ==
  /\ Ready
  /\ calls < MaxShareCalls
  /\ IF event_id \notin DOMAIN events
     THEN FaultFail("delete_event", user_id, event_id, fault, NotFound)
     ELSE \E role \in get_user_event_permission(permissions, user_id, event_id) :
       IF ~MayDelete(role)
       THEN FaultFail("delete_event", user_id, event_id, fault, Forbidden)
       ELSE IF fault = "commit"
       THEN FaultFail("delete_event", user_id, event_id, fault,
                      ServiceUnavailable)
       ELSE /\ events' = Drop(events, event_id)
            /\ permissions' = CascadePermissions(permissions, event_id)
            /\ histories' = Drop(histories, event_id)
            /\ AfterCommit("delete_event", user_id, event_id, fault, TRUE,
                 Notify(get_event_participant_user_ids(permissions', event_id)
                          \ {str(user_id)},
                        [type |-> "event_deleted", event_id |-> event_id,
                         initiator_id |-> user_id, user_id |-> Null,
                         role |-> Null]))
            /\ UNCHANGED nextEventId

NextFault ==
  \/ \E u \in ShareUsers, d \in ConcCreate : CreateShared(u, d)
  \/ \E u \in ShareUsers, e \in EventIds, l \in PermLists : GrantAlone(u, e, l)
  \/ \E u \in ShareUsers, e \in EventIds, l \in PermLists, f \in Faults :
       GrantWithFault(u, e, l, f)
  \/ \E u \in ShareUsers, e \in EventIds, f \in Faults : DeleteWithFault(u, e, f)

SpecFault == Init /\ [][NextFault]_vars

\* ====================================================================
\* Refresh tokens: login, refresh and logout against the token store.
\* ====================================================================

\* jwt.encode of a refresh token: the signed claims. The cookie of a request
\* holds such a token, nothing (the empty tuple) or text that is no token.
create_refresh_token(subject, jti) == <<subject, jti>>

\* jwt.decode: the claims, or ValueError for what is not a signed token
decode_refresh_token(token) ==
  IF Len(token) = 2
  THEN [ok |-> TRUE, sub |-> token[1], jti |-> token[2]]
  ELSE [ok |-> FALSE]

\* revoked when the token does not decode or its jti key is not in the store
is_refresh_token_revoked(jtis, token) ==
  LET payload == decode_refresh_token(token)
  IN  IF ~payload.ok THEN TRUE ELSE payload.jti \notin jtis

\* (mutant: the key stays in the store)
revoke_refresh_token_kept(jtis, token) == jtis

\* redis delete of the token's jti key; nothing for what does not decode
revoke_refresh_token(jtis, token) ==
  LET payload == decode_refresh_token(token)
  IN  IF ~payload.ok THEN jtis ELSE jtis \ {payload.jti}

\* what a client can present: no cookie, text that is no token, or a token
\* that was issued (tokens cannot be forged without the secret)
Presented ==
  { << >>, <<0>> }
    \cup { create_refresh_token(auth.issued[j], j) : j \in DOMAIN auth.issued }

\* create_refresh_token_for_user: a token with a fresh jti, its key stored;
\* rotated records the jti of the token the request presented (0 at login)
Issue(a, jtis, user, presented) ==
  [a EXCEPT !.issued = Append(@, user),
            !.rotated = Append(@, presented),
            !.jtis = jtis \cup {Len(a.issued) + 1}]

AuthCall(op, token, result, new) ==
  [op |-> op, token |-> token, result |-> result, new |-> new]

\* login: a refresh token is issued to the user (is_active is not looked at)
Login(user) ==
  /\ Len(auth.issued) < MaxTokens
  /\ auth' = Issue(auth, auth.jtis, user, 0)
  /\ last' = AuthCall("login", << >>, OK,
                      create_refresh_token(user, Len(auth.issued) + 1))
  /\ UNCHANGED <<db, published, txns, calls, listening, queue, dispatch,
                 connections, received, broken, logged>>

\* the account's is_active becomes False
Deactivate(user) ==
  /\ user \in auth.active
  /\ auth' = [auth EXCEPT !.active = @ \ {user}]
  /\ UNCHANGED <<db, published, txns, last, calls, listening, queue, dispatch,
                 connections, received, broken, logged>>

\* the checks of refresh, in their order: cookie, revocation, decode, user
RefreshError(token) ==
  IF token = << >> THEN "Refresh token missing"
  ELSE IF is_refresh_token_revoked(auth.jtis, token) THEN "Refresh token revoked"
  ELSE IF decode_refresh_token(token).sub \notin auth.active THEN "Invalid user"
  ELSE "None"

\* POST /refresh as one request that runs alone
Refresh(token) ==
  /\ Len(auth.issued) < MaxTokens
  /\ \A w \in Workers : txns[w] = Idle
  /\ IF RefreshError(token) # "None"
     THEN /\ last' = AuthCall("refresh", token, "Unauthorized", << >>)
          /\ UNCHANGED auth
     ELSE LET user == decode_refresh_token(token).sub IN
          /\ auth' = Issue(auth, revoke_refresh_token(auth.jtis, token), user,
                           decode_refresh_token(token).jti)
          /\ last' = AuthCall("refresh", token, OK,
                              create_refresh_token(user, Len(auth.issued) + 1))
  /\ UNCHANGED <<db, published, txns, calls, listening, queue, dispatch,
                 connections, received, broken, logged>>

\* POST /logout: the token of the cookie, if there is one, is revoked
Logout(token) ==
  /\ auth' = [auth EXCEPT !.jtis =
                IF token = << >> THEN @ ELSE revoke_refresh_token(@, token)]
  /\ last' = AuthCall("logout", token, OK, << >>)
  /\ UNCHANGED <<db, published, txns, calls, listening, queue, dispatch,
                 connections, received, broken, logged>>

NextAuth ==
  \/ \E u \in Users : Login(u)
  \/ \E u \in Users : Deactivate(u)
  \/ \E t \in Presented : Refresh(t)
  \/ \E t \in Presented : Logout(t)

SpecAuth == Init /\ [][NextAuth]_vars


\* a step in which an authentication request is answered
AuthAnswered == last' # last \/ auth'.issued # auth.issued

\* C33: refresh tokens rotate. A successful refresh with token T and a logout
\* presenting T leave T's key out of the store, a key that has left the store
\* never returns, a refresh presenting a revoked token is answered
\* Unauthorized, the newly issued token is in the store and a refresh
\* presenting a stored token of an active user succeeds; a refresh that fails
\* leaves the store and the issued tokens as they were.
C33_RefreshTokensRotate ==
  [][ LET token == last'.token
          payload == decode_refresh_token(token)
      IN  /\ \A j \in DOMAIN auth.issued : j \notin auth.jtis => j \notin auth'.jtis
          /\ (AuthAnswered /\ last'.op = "refresh" /\ last'.result = OK) =>
               /\ payload.ok /\ payload.jti \in auth.jtis
               /\ payload.jti \notin auth'.jtis
               /\ last'.new[2] \notin DOMAIN auth.issued
               /\ last'.new[2] \in auth'.jtis
               /\ auth'.jtis = (auth.jtis \ {payload.jti}) \cup {last'.new[2]}
               /\ last'.new[1] = payload.sub
               /\ ~is_refresh_token_revoked(auth'.jtis, last'.new)
          /\ (AuthAnswered /\ last'.op = "refresh" /\ last'.result # OK) =>
               /\ last'.result = "Unauthorized"
               /\ auth' = auth
               /\ last'.new = << >>
          /\ (AuthAnswered /\ last'.op = "refresh"
                /\ (token = << >> \/ ~payload.ok \/ payload.jti \notin auth.jtis
                      \/ payload.sub \notin auth.active)) =>
               last'.result = "Unauthorized"
          /\ (AuthAnswered /\ last'.op = "refresh" /\ payload.ok
                /\ payload.jti \in auth.jtis /\ payload.sub \in auth.active) =>
               last'.result = OK
          /\ (AuthAnswered /\ last'.op = "logout") =>
               /\ payload.ok => payload.jti \notin auth'.jtis
               /\ auth'.issued = auth.issued
               /\ auth'.jtis \subseteq auth.jtis
    ]_vars

\* a token that was rotated is presented again and refused, while the token
\* issued in its place is in the store
C33_Witness ==
  /\ last.op = "refresh"
  /\ last.result = "Unauthorized"
  /\ decode_refresh_token(last.token).ok
  /\ last.token[2] \notin auth.jtis
  /\ last.token[1] \in auth.active
  /\ \E j \in auth.jtis : j > last.token[2] /\ auth.issued[j] = last.token[1]

\* refresh up to get_user_by_id: the request has passed every check
RefreshCheck(w, token) ==
  /\ txns[w] = Idle
  /\ IF RefreshError(token) # "None"
     THEN /\ last' = AuthCall("refresh", token, "Unauthorized", << >>)
          /\ UNCHANGED txns
     ELSE /\ txns' = [txns EXCEPT ![w] =
                        [pc |-> "refresh_checked", token |-> token,
                         user |-> decode_refresh_token(token).sub]]
          /\ UNCHANGED last
  /\ UNCHANGED <<db, auth, published, calls, listening, queue, dispatch,
                 connections, received, broken, logged>>

\* refresh from revoke_refresh_token on: the old key is deleted, the new
\* pair is issued and returned
RefreshRevoke(w) ==
  /\ txns[w].pc = "refresh_checked"
  /\ Len(auth.issued) < MaxTokens
  /\ auth' = Issue(auth, revoke_refresh_token(auth.jtis, txns[w].token),
                   txns[w].user, decode_refresh_token(txns[w].token).jti)
  /\ last' = AuthCall("refresh", txns[w].token, OK,
                      create_refresh_token(txns[w].user, Len(auth.issued) + 1))
  /\ txns' = [txns EXCEPT ![w] = Idle]
  /\ UNCHANGED <<db, published, calls, listening, queue, dispatch,
                 connections, received, broken, logged>>

NextAuthConc ==
  \/ \E u \in Users : Login(u)
  \/ \E w \in Workers, t \in Presented : RefreshCheck(w, t)
  \/ \E w \in Workers : RefreshRevoke(w)

SpecAuthConc == Init /\ [][NextAuthConc]_vars


\* C40: a refresh token is good for at most one successful rotation: no two
\* issued tokens were obtained by presenting the same refresh token, however
\* the requests interleave between the revocation check and the revoke step.
C40_TokenRotatesAtMostOnce ==
  \A j, k \in DOMAIN auth.rotated :
    (j # k /\ auth.rotated[j] = auth.rotated[k]) => auth.rotated[j] = 0

\* ====================================================================
\* Push notifications: the broker channel, the redis_listener task of a
\* process and the WebSocket connections registered on it.
\* ====================================================================

\* sockets registered for a user on a process (active_ws_connections.get)
ConnsOf(p, user_id) ==
  IF user_id \in DOMAIN connections[p] THEN connections[p][user_id] ELSE {}

\* lifespan startup: the listener task subscribes to the channel
StartListener(p) ==
  /\ ~listening[p]
  /\ listening' = [listening EXCEPT ![p] = TRUE]
  /\ UNCHANGED <<db, auth, published, txns, last, calls, queue, dispatch,
                 connections, received, broken, logged>>

\* ws_notifications: accept, then register_ws(str(user.id), websocket). The
\* socket is a connection object that is in no set yet, and it is open: an
\* identity that is free again stands for a new connection.
register_ws(p, user, ws) ==
  /\ \A q \in Processes :
       \A k \in DOMAIN connections[q] : ws \notin connections[q][k]
  /\ connections' =
       [connections EXCEPT ![p] = Put(@, str(user), ConnsOf(p, str(user)) \cup {ws})]
  /\ broken' = broken \ {ws}
  /\ UNCHANGED <<db, auth, published, txns, last, calls, listening, queue,
                 dispatch, received, logged>>

\* (mutant: the set is kept in the dict when its last socket is discarded)
unregister_ws_unpruned(p, user_id, ws) ==
  /\ IF ConnsOf(p, user_id) = {}
     THEN UNCHANGED connections
     ELSE connections' =
            [connections EXCEPT ![p] =
               Put(@, user_id, connections[p][user_id] \ {ws})]
  /\ UNCHANGED <<db, auth, published, txns, last, calls, listening, queue,
                 dispatch, received, broken, logged>>

\* unregister_ws(user_id, ws): nothing happens when the user has no set or an
\* empty one; else the socket is discarded from the user's set and a set that
\* is empty then is deleted from the dict. A dispatch that is iterating this
\* set keeps the set object it started with.
unregister_ws(p, user_id, ws) ==
  /\ IF ConnsOf(p, user_id) = {}
     THEN UNCHANGED <<connections, dispatch>>
     ELSE /\ connections' =
               [connections EXCEPT ![p] =
                  IF connections[p][user_id] \ {ws} = {} THEN Drop(@, user_id)
                  ELSE Put(@, user_id, connections[p][user_id] \ {ws})]
          /\ dispatch' =
               [dispatch EXCEPT ![p] =
                  IF /\ @.pc = "sending"
                     /\ @.user_id = user_id
                     /\ connections[p][user_id] = {ws}
                  THEN [@ EXCEPT !.detached = TRUE]
                  ELSE @]
  /\ UNCHANGED <<db, auth, published, txns, last, calls, listening, queue,
                 received, broken, logged>>

\* the set the inner loop iterates has another size than when the loop began
SetChangedSize(p) ==
  \/ dispatch[p].detached
  \/ Cardinality(ConnsOf(p, dispatch[p].user_id)) # dispatch[p].used

\* json.loads(message["data"]), payload["user_ids"], payload["notification"]
\* go through: the payload is a JSON object with both keys
WellFormed(m) == {"user_ids", "notification"} \subseteq DOMAIN m

\* (mutant: the exception leaves the loop of redis_listener)
CaughtNever(exc) == FALSE

\* (mutant: `except Exception` also catches the BaseException of a cancel)
CaughtAlways(exc) == TRUE

\* `except Exception` inside the loop of redis_listener: the error is logged
\* and the loop goes on; an exception that is not caught there ends the task,
\* whose `finally` unsubscribes
Caught(exc) == exc \in {"payload", "RuntimeError"}

\* an exception reaches the loop of redis_listener: logger.error and on to the
\* next message when it is caught, the end of the subscription when not
Raised(p, exc) ==
  IF Caught(exc)
  THEN logged' = logged \cup {exc} /\ UNCHANGED listening
  ELSE listening' = [listening EXCEPT ![p] = FALSE] /\ UNCHANGED logged

\* _send_ws_notifications up to its next `await ws.send_json(notification)`,
\* or to its end. reg is the dict as the steps before have left it. The outer
\* loop passes over the user ids without a socket, takes the set of the next
\* one, and the inner loop sends to its first socket: a send to a broken
\* socket raises and the socket is noted in to_remove_ws. When no user id is
\* left the keys noted in to_remove are popped.
SendNext(p, reg, notification, targets, user_ids, to_remove) ==
  LET cands == { u \in user_ids \cap DOMAIN reg : reg[u] # {} }
  IN  IF cands = {}
      THEN /\ dispatch' = [dispatch EXCEPT ![p] = Waiting]
           /\ connections' =
                [connections EXCEPT ![p] =
                   [k \in DOMAIN reg \ to_remove |-> reg[k]]]
           /\ UNCHANGED received
      ELSE \E user_id \in cands, skipped \in SUBSET (user_ids \ cands) :
             \E ws \in reg[user_id] :
               /\ received' =
                    IF ws \in broken THEN received
                    ELSE [received EXCEPT ![ws] = Append(@, notification)]
               /\ connections' = [connections EXCEPT ![p] = reg]
               /\ dispatch' =
                    [dispatch EXCEPT ![p] =
                       [pc |-> "sending",
                        notification |-> notification,
                        targets |-> targets,
                        user_ids |-> user_ids \ ({user_id} \cup skipped),
                        user_id |-> user_id,
                        used |-> Cardinality(reg[user_id]),
                        sent |-> {ws},
                        failed |-> {ws} \cap broken,
                        to_remove |-> to_remove,
                        detached |-> FALSE]]

\* redis_listener: pubsub.get_message returned a message; its payload is
\* parsed and handed to _send_ws_notifications
ListenerTake(p) ==
  /\ listening[p]
  /\ dispatch[p] = Waiting
  /\ queue[p] # << >>
  /\ queue' = [queue EXCEPT ![p] = Tail(@)]
  /\ IF WellFormed(Head(queue[p]))
     THEN /\ SendNext(p, connections[p], Head(queue[p]).notification,
                      Head(queue[p]).user_ids, Head(queue[p]).user_ids, {})
          /\ UNCHANGED <<listening, logged>>
     ELSE /\ Raised(p, "payload")
          /\ UNCHANGED <<dispatch, connections, received>>
  /\ UNCHANGED <<db, auth, published, txns, last, calls, broken>>

\* (mutant: the sockets whose push failed stay in the set)
DiscardNone(conns, to_remove_ws) == conns

\* for ws in to_remove_ws: conns.discard(ws)
Discard(conns, to_remove_ws) == conns \ to_remove_ws

\* `await ws.send_json(notification)` returned and `for ws in conns` takes its
\* next step. The set iterator raises RuntimeError when the set changed size
\* since the loop began; the error leaves _send_ws_notifications and the rest
\* of the message is dropped. At the end of the inner loop the sockets noted
\* in to_remove_ws are discarded from the set, and a user id whose set is
\* empty then is noted in to_remove.
ListenerSend(p) ==
  /\ dispatch[p].pc = "sending"
  /\ LET d == dispatch[p]
         conns == ConnsOf(p, d.user_id)
     IN  IF SetChangedSize(p)
         THEN /\ dispatch' = [dispatch EXCEPT ![p] = Waiting]
              /\ Raised(p, "RuntimeError")
              /\ UNCHANGED <<received, connections>>
         ELSE IF conns \subseteq d.sent
         THEN /\ SendNext(p, Put(connections[p], d.user_id, Discard(conns, d.failed)),
                          d.notification, d.targets, d.user_ids,
                          IF Discard(conns, d.failed) = {}
                          THEN d.to_remove \cup {d.user_id}
                          ELSE d.to_remove)
              /\ UNCHANGED <<listening, logged>>
         ELSE \E ws \in conns \ d.sent :
                /\ received' =
                     IF ws \in broken THEN received
                     ELSE [received EXCEPT ![ws] = Append(@, d.notification)]
                /\ dispatch' =
                     [dispatch EXCEPT ![p] =
                        [@ EXCEPT !.sent = @ \cup {ws},
                                  !.failed = @ \cup ({ws} \cap broken)]]
                /\ UNCHANGED <<listening, logged, connections>>
  /\ UNCHANGED <<db, auth, published, txns, last, calls, queue, broken>>

\* the calls of the notification scenario: an event is created and shared
NotifyCreate(user_id, data) ==
  /\ calls < MaxNotifyCalls
  /\ CreateEvent(user_id, data)

NotifyGrant(current_user_id, event_id, items) ==
  /\ calls < MaxNotifyCalls
  /\ GrantEventPermissions(current_user_id, event_id, items)

NextNotify ==
  \/ \E p \in Processes : StartListener(p)
  \/ \E p \in Processes, u \in Users, ws \in Sockets : register_ws(p, u, ws)
  \/ \E p \in Processes, u \in Users, ws \in Sockets :
       unregister_ws(p, str(u), ws)
  \/ \E p \in Processes : ListenerTake(p)
  \/ \E p \in Processes : ListenerSend(p)
  \/ \E u \in Users, d \in ConcCreate : NotifyCreate(u, d)
  \/ \E u \in Users, e \in EventIds, l \in ConcShareLists : NotifyGrant(u, e, l)

\* the listener task is scheduled again and again while it has work
ListenerFairness ==
  \A p \in Processes :
    /\ WF_vars(ListenerTake(p))
    /\ WF_vars(ListenerSend(p))

SpecNotify == Init /\ [][NextNotify]_vars /\ ListenerFairness

\* ------------------------------------------- the channel and dead peers
\* what a publisher can put on the channel as its seq-th message: payloads
\* with both keys, text that is not JSON, and objects that lack one key
ChannelMessages(seq) ==
  LET n == [type |-> "message", seq |-> seq]
  IN  { [user_ids |-> { str(u) : u \in us }, notification |-> n] :
          us \in SUBSET Users \ {{}} }
        \cup { [text |-> "not json", seq |-> seq],
               [notification |-> n],
               [user_ids |-> { str(u) : u \in Users }, seq |-> seq] }

\* redis publish on NOTIFICATIONS_CHANNEL by any client of the broker
Publish(m) ==
  /\ calls < MaxPushes
  /\ calls' = calls + 1
  /\ published' = << m >>
  /\ Broadcast(published')
  /\ UNCHANGED <<db, txns, last>>

\* the peer of a registered socket goes away and the handler has not seen
\* it yet: from now on send_json on this socket raises
Break(ws) ==
  /\ ws \notin broken
  /\ \E p \in Processes : \E k \in DOMAIN connections[p] : ws \in connections[p][k]
  /\ broken' = broken \cup {ws}
  /\ UNCHANGED <<db, auth, published, txns, last, calls, listening, queue, dispatch,
                 connections, received, logged>>

NextPush ==
  \/ \E p \in Processes : StartListener(p)
  \/ \E p \in Processes, u \in Users, ws \in Sockets : register_ws(p, u, ws)
  \/ \E p \in Processes, u \in Users, ws \in Sockets :
       unregister_ws(p, str(u), ws)
  \/ \E ws \in Sockets : Break(ws)
  \/ \E m \in ChannelMessages(calls + 1) : Publish(m)
  \/ \E p \in Processes : ListenerTake(p)
  \/ \E p \in Processes : ListenerSend(p)

SpecPush == Init /\ [][NextPush]_vars /\ ListenerFairness


\* C35: a registered connection leaves the registry only by its own
\* unregister_ws or after a push to it failed in the delivery in progress;
\* the listener's deferred pruning of a user's entry drops no connection
\* that was registered in the meantime.
C35_LiveConnectionStaysRegistered ==
  [][ \A p \in Processes, u \in Users, ws \in Sockets :
        (ws \in ConnsOf(p, str(u)) /\ ws \notin ConnsOf(p, str(u))') =>
          \/ unregister_ws(p, str(u), ws)
          \/ dispatch[p].pc = "sending" /\ ws \in dispatch[p].failed
    ]_vars

\* ------------------------------------- one delivery and the registry
\* One message is delivered. While the listener is suspended in a push, the
\* registry changes only in the set of the user being served and not at the
\* socket of the pending push: another connection of that user is accepted,
\* or one that has not had its push yet goes away.
RegisterDuringPush(p, u, ws) ==
  /\ dispatch[p] = Waiting \/ (dispatch[p].pc = "sending" /\ dispatch[p].user_id = str(u))
  /\ register_ws(p, u, ws)

UnregisterDuringPush(p, user_id, ws) ==
  /\ \/ dispatch[p] = Waiting
     \/ /\ dispatch[p].pc = "sending"
        /\ dispatch[p].user_id = user_id
        /\ ws \notin dispatch[p].sent
  /\ ws \in ConnsOf(p, user_id)
  /\ unregister_ws(p, user_id, ws)

NextDelivery ==
  \/ \E p \in Processes : StartListener(p)
  \/ \E p \in Processes, u \in Users, ws \in DeliverySockets :
       RegisterDuringPush(p, u, ws)
  \/ \E p \in Processes, u \in Users, ws \in DeliverySockets :
       UnregisterDuringPush(p, str(u), ws)
  \/ \E m \in { c \in ChannelMessages(1) : WellFormed(c) } :
       calls = 0 /\ Publish(m)
  \/ \E p \in Processes : ListenerTake(p)
  \/ \E p \in Processes : ListenerSend(p)

SpecDelivery ==
  InitWith(DeliverySockets) /\ [][NextDelivery]_vars /\ ListenerFairness

\* C36: a delivery is not cut short by a change of the registry at another
\* connection of the user being served: a socket that is registered for a
\* targeted user when the listener is about to take the message receives
\* the notification, unless the socket itself is unregistered.
C36_DeliveryReachesTheRest ==
  \A p \in Processes, u \in Users, ws \in DeliverySockets :
    ( /\ listening[p]
      /\ dispatch[p] = Waiting
      /\ queue[p] # << >>
      /\ str(u) \in Head(queue[p]).user_ids
      /\ ws \in ConnsOf(p, str(u)) )
      ~> ( \/ \E i \in 1..Len(received[ws]) : received[ws][i].seq = 1
           \/ ws \notin ConnsOf(p, str(u)) )

\* the registry is left alone while a message is being handled
NextPushQuiet ==
  \/ \E p \in Processes : StartListener(p)
  \/ \E p \in Processes, u \in Users, ws \in Sockets :
       dispatch[p] = Waiting /\ register_ws(p, u, ws)
  \/ \E p \in Processes, u \in Users, ws \in Sockets :
       dispatch[p] = Waiting /\ unregister_ws(p, str(u), ws)
  \/ \E ws \in Sockets : Break(ws)
  \/ \E m \in ChannelMessages(calls + 1) : Publish(m)
  \/ \E p \in Processes : ListenerTake(p)
  \/ \E p \in Processes : ListenerSend(p)

SpecPushQuiet == Init /\ [][NextPushQuiet]_vars /\ ListenerFairness

\* ----------------------------------------------------------- shutdown
\* lifespan after the yield: task.cancel(); CancelledError is thrown into the
\* listener at the await it is suspended in (get_message or sleep while it
\* waits, send_json while it dispatches)
Shutdown(p) ==
  /\ listening[p]
  /\ dispatch[p].pc \in {"waiting", "sending"}
  /\ dispatch' = [dispatch EXCEPT ![p] = [pc |-> "cancelling", at |-> @.pc]]
  /\ UNCHANGED <<db, auth, published, txns, last, calls, listening, queue,
                 connections, received, broken, logged>>

\* the listener runs again with the CancelledError. Thrown inside a dispatch
\* it first meets the `except` clauses around send_json and around the
\* dispatch; what they do not catch reaches `finally`: unsubscribe, close,
\* and the task ends, which `await task` of lifespan is waiting for.
ListenerCancelled(p) ==
  /\ dispatch[p].pc = "cancelling"
  /\ IF dispatch[p].at = "sending" /\ Caught("CancelledError")
     THEN /\ dispatch' = [dispatch EXCEPT ![p] = Waiting]
          /\ logged' = logged \cup {"CancelledError"}
          /\ UNCHANGED <<listening, queue>>
     ELSE /\ dispatch' = [dispatch EXCEPT ![p] = [@ EXCEPT !.pc = "stopped"]]
          /\ listening' = [listening EXCEPT ![p] = FALSE]
          /\ queue' = [queue EXCEPT ![p] = << >>]
          /\ UNCHANGED logged
  /\ UNCHANGED <<db, auth, published, txns, last, calls, connections, received,
                 broken>>

NextShutdown ==
  \/ \E p \in Processes : dispatch[p] = Waiting /\ StartListener(p)
  \/ \E p \in Processes, u \in Users, ws \in Sockets : register_ws(p, u, ws)
  \/ \E p \in Processes, u \in Users, ws \in Sockets :
       unregister_ws(p, str(u), ws)
  \/ \E ws \in Sockets : Break(ws)
  \/ \E m \in ChannelMessages(calls + 1) : Publish(m)
  \/ \E p \in Processes : ListenerTake(p)
  \/ \E p \in Processes : ListenerSend(p)
  \/ \E p \in Processes : Shutdown(p)
  \/ \E p \in Processes : ListenerCancelled(p)

SpecShutdown ==
  /\ Init /\ [][NextShutdown]_vars
  /\ ListenerFairness
  /\ \A p \in Processes : WF_vars(ListenerCancelled(p))

\* ====================================================================
\* Properties
\* ====================================================================

\* the field values a snapshot records, timestamps taken by value
Recorded(data) ==
  [f \in FieldNames |->
     IF f \in {"start_time", "end_time"} THEN fromisoformat(data[f])
     ELSE data[f]]

\* the permission rows of an event, with multiplicity
RowsOfEvent(perms, event_id) ==
  { p \in BagToSet(perms) : p.event_id = event_id }

RolesOf(perms, user_id, event_id) ==
  { p.role : p \in PermRows(perms, user_id, event_id) }

SameFields(ev1, ev2) == \A f \in FieldNames : ev1[f] = ev2[f]

\* half-open intervals [s1,e1) and [s2,e2) intersect
Intersect(s1, e1, s2, e2) == s1 < e2 /\ e1 > s2

\* C1: for every event the versions of its History rows are exactly 1..N,
\* without gap or duplicate, under any interleaving of concurrent
\* update_event and rollback calls.
C1_VersionsAre1toN ==
  \A e \in DOMAIN histories :
    \A i \in 1..Len(histories[e]) :
      Cardinality({ j \in 1..Len(histories[e]) :
                     histories[e][j].version = i }) = 1

\* C2: a successful create_event leaves the new event with exactly one
\* Permission row (Owner, held by the creator) and exactly one History row:
\* version 1, snapshot equal to the created field values, changed_by the
\* creator.
C2_CreateOwnerAndVersion1 ==
  (last.op = "create_event" /\ last.result = OK) =>
    LET e == last.event_id IN
      /\ e \in DOMAIN events
      /\ events[e].owner_id = last.user
      /\ RowsOfEvent(permissions, e) = {PermissionRow(last.user, e, OWNER)}
      /\ CopiesIn(PermissionRow(last.user, e, OWNER), permissions) = 1
      /\ Len(histories[e]) = 1
      /\ histories[e][1].version = 1
      /\ histories[e][1].changed_by = last.user
      /\ SameFields(Recorded(histories[e][1].data), events[e])
      /\ histories[e][1].data.owner_id = str(last.user)

C2_Witness ==
  /\ last.op = "create_event" /\ last.result = OK
  /\ Cardinality(DOMAIN events) = 2
  /\ Len(histories[last.event_id]) = 1

\* C3: every event created by create_events_batch has an Owner permission for
\* the creator and a version-1 History row capturing its just-created state.
C3_BatchOwnerAndVersion1 ==
  (last.op = "create_events_batch" /\ last.result = OK
     /\ last.event_id # NoEvent) =>
    \A e \in last.event_id .. (nextEventId - 1) :
      /\ e \in DOMAIN events
      /\ RowsOfEvent(permissions, e) = {PermissionRow(last.user, e, OWNER)}
      /\ Len(histories[e]) = 1
      /\ histories[e][1].version = 1
      /\ SameFields(Recorded(histories[e][1].data), events[e])

\* C4: after a successful rollback of event E to version V every mutable
\* field of E equals the value recorded in V's snapshot, a field recorded as
\* null included.
C4_RollbackRestoresSnapshot ==
  (last.op = "rollback" /\ last.result = OK) =>
    \A row \in get_event_version(histories, last.version_id) :
      SameFields(events[last.event_id], Recorded(row.data))

\* C5: the History row appended by a rollback records the field values the
\* event had before the rollback overwrote them.
C5_RollbackSnapshotsPriorState ==
  [][\A u \in Users, e \in EventIds, v \in KnownVersionIds :
       (RollbackVersion(u, e, v) /\ v[1] = e /\ last'.result = OK) =>
         /\ Len(histories'[e]) = Len(histories[e]) + 1
         /\ SameFields(Recorded(histories'[e][Len(histories'[e])].data),
                       events[e])]_vars

\* C6: no two events of the same owner have overlapping [start,end)
\* intervals.
C6_NoOverlapPerOwner ==
  \A e1 \in DOMAIN events, e2 \in DOMAIN events :
    (e1 # e2 /\ events[e1].owner_id = events[e2].owner_id) =>
      ~Intersect(events[e1].start_time, events[e1].end_time,
                 events[e2].start_time, events[e2].end_time)

\* C7: create_event fails with Conflict, persisting nothing, exactly when the
\* candidate interval intersects an existing event of the same owner; a
\* candidate that only touches an existing event at a boundary is created.
C7_CreateConflictIffOverlap ==
  [][\A u \in {last'.user} \cap Users, d \in ValidEventCreate :
       (last'.op = "create_event" /\ CreateEvent(u, d)) =>
         IF \E e \in DOMAIN events :
              /\ events[e].owner_id = u
              /\ events[e].start_time < d.end_time
              /\ events[e].end_time > d.start_time
         THEN /\ last'.result = Conflict
              /\ UNCHANGED db
         ELSE /\ last'.result = OK
              /\ DOMAIN events' = DOMAIN events \cup {last'.event_id}
              /\ last'.event_id \notin DOMAIN events
              /\ events'[last'.event_id].owner_id = u
              /\ SameFields(events'[last'.event_id], d)]_vars

C7_Witness ==
  /\ last.op = "create_event" /\ last.result = OK
  /\ \E e \in DOMAIN events \ {last.event_id} :
       /\ events[e].owner_id = last.user
       /\ \/ events[e].end_time = events[last.event_id].start_time
          \/ events[e].start_time = events[last.event_id].end_time

\* C8: update_event by the owner that supplies start_time and end_time
\* overlapping another event of the same owner fails with Conflict and leaves
\* the event and its history unchanged.
C8_UpdateOverlapIsConflict ==
  [][\A u \in Users, e \in EventIds, d \in EventUpdate :
       ( /\ UpdateEvent(u, e, d)
         /\ e \in DOMAIN events
         /\ events[e].owner_id = u
         /\ OWNER \in RolesOf(permissions, u, e)
         /\ "start_time" \in DOMAIN d /\ "end_time" \in DOMAIN d
         /\ \E o \in DOMAIN events \ {e} :
              /\ events[o].owner_id = u
              /\ Intersect(events[o].start_time, events[o].end_time,
                           d["start_time"], d["end_time"]) )
       => (last'.result = Conflict /\ UNCHANGED <<events, histories>>)]_vars

\* C9: a user whose only permission on an existing event E is Viewer, or who
\* has none, gets Forbidden from update_event and delete_event on E, and the
\* event, its permissions and its history stay unchanged.
C9_ViewerForbidden ==
  [][( /\ last'.op \in {"update_event", "delete_event"}
       /\ last'.event_id \in DOMAIN events
       /\ RolesOf(permissions, last'.user, last'.event_id) \subseteq {VIEWER} )
     => (last'.result = Forbidden /\ UNCHANGED db)]_vars

C9_Witness ==
  /\ last.op \in {"update_event", "delete_event"}
  /\ last.result = Forbidden
  /\ last.event_id \in DOMAIN events
  /\ RolesOf(permissions, last.user, last.event_id) = {VIEWER}

\* C10: the mutable fields of an event change only in a call whose actor
\* holds Owner or Editor on it, and an event is deleted only by an actor
\* holding Owner; a Viewer never causes a field to change.
C10_MutationNeedsRole ==
  [][\A e \in DOMAIN events :
       /\ (e \in DOMAIN events' /\ ~SameFields(events'[e], events[e])) =>
            RolesOf(permissions, last'.user, e) \cap {OWNER, EDITOR} # {}
       /\ (e \notin DOMAIN events') =>
            OWNER \in RolesOf(permissions, last'.user, e)]_vars

\* rows of the permissions table that name one (event, user) pair
RowCount(perms, event_id, user_id) ==
  BagCardinality([p \in PermRows(perms, user_id, event_id) |-> perms[p]])

\* C11: a grant_event_permissions batch by the Owner in which an entry names
\* another user who already has a permission on the event fails with Conflict,
\* creates no Permission row, leaves the existing rows unchanged and publishes
\* nothing; an entry that names the actor is skipped: it creates no row and
\* does not make the batch fail.
C11_GrantAllOrNothing ==
  [][( /\ last'.op = "grant_event_permissions"
       /\ (calls' # calls \/ last'.result # OK)
       /\ \A w \in Workers : txns[w] = Idle
       /\ RolesOf(permissions, last'.user, last'.event_id) = {OWNER} ) =>
       LET u == last'.user
           e == last'.event_id
           l == last'.items
       IN  IF \E i \in 1..Len(l) :
                l[i].user_id # u /\ PermRows(permissions, l[i].user_id, e) # {}
           THEN /\ last'.result = Conflict
                /\ permissions' = permissions
                /\ published' = << >>
           ELSE /\ RowCount(permissions', e, u) = RowCount(permissions, e, u)
                /\ (\A i, j \in 1..Len(l) :
                      (i # j /\ l[i].user_id # u) => l[i].user_id # l[j].user_id)
                     => last'.result = OK]_vars

\* a batch of two entries was rejected: its first entry names a user without
\* a permission, its second a user who has one
C11_Witness ==
  /\ last.op = "grant_event_permissions" /\ last.result = Conflict
  /\ RolesOf(permissions, last.user, last.event_id) = {OWNER}
  /\ Len(last.items) = 2
  /\ last.items[1].user_id # last.user
  /\ PermRows(permissions, last.items[1].user_id, last.event_id) = {}
  /\ last.items[2].user_id # last.user
  /\ PermRows(permissions, last.items[2].user_id, last.event_id) # {}

\* C12: there is at most one Permission row per (event, user) pair, also when
\* two grant_event_permissions calls for the same event and user run
\* concurrently.
C12_OnePermissionPerPair ==
  \A p \in BagToSet(permissions) :
    RowCount(permissions, p.event_id, p.user_id) = 1

\* C13: create_events_batch is all-or-nothing: when an item overlaps a
\* persisted event of the owner or an earlier item of the same batch, the call
\* fails with Conflict and no event, permission or history row is persisted;
\* otherwise every item is created.
C13_BatchAllOrNothing ==
  [][(last'.op = "create_events_batch") =>
       \A u \in {last'.user} \cap Users, l \in BatchLists :
         CreateEventsBatch(u, l) =>
           IF \E i \in 1..Len(l) :
                \/ \E e \in DOMAIN events :
                     /\ events[e].owner_id = u
                     /\ Intersect(events[e].start_time, events[e].end_time,
                                  l[i].start_time, l[i].end_time)
                \/ \E j \in 1..(i - 1) :
                     Intersect(l[j].start_time, l[j].end_time,
                               l[i].start_time, l[i].end_time)
           THEN /\ last'.result = Conflict
                /\ UNCHANGED db
           ELSE /\ last'.result = OK
                /\ Cardinality(DOMAIN events') =
                     Cardinality(DOMAIN events) + Len(l)]_vars

\* a batch was rejected although its owner has no persisted event: one of its
\* items overlaps an earlier one
C13_Witness ==
  /\ last.op = "create_events_batch" /\ last.result = Conflict
  /\ DOMAIN events # {}
  /\ \A e \in DOMAIN events : events[e].owner_id # last.user

\* C14: when the Owner deletes an event on which other users hold
\* permissions, exactly one event_deleted message is published, addressed to
\* every user that held a permission on the event just before the deletion,
\* minus the actor.
C14_DeleteNotifiesParticipants ==
  [][( /\ last'.op = "delete_event" /\ last'.result = OK
       /\ get_event_participant_user_ids(permissions, last'.event_id)
            \ {str(last'.user)} # {} ) =>
       /\ Len(published') = 1
       /\ published'[1].notification.type = "event_deleted"
       /\ published'[1].user_ids =
            get_event_participant_user_ids(permissions, last'.event_id)
              \ {str(last'.user)}]_vars

\* a permission_granted message for (user b, event e, role r) addressed to b
IsGrantMessage(m, b, e, r) ==
  /\ str(b) \in m.user_ids
  /\ m.notification.type = "permission_granted"
  /\ m.notification.event_id = str(e)
  /\ m.notification.user_id = str(b)
  /\ m.notification.role = r

\* the message is held by the subscription of process p or is being dispatched
GrantPending(p, b, e, r) ==
  \/ \E i \in 1..Len(queue[p]) : IsGrantMessage(queue[p][i], b, e, r)
  \/ /\ dispatch[p].pc = "sending"
     /\ dispatch[p].notification.type = "permission_granted"
     /\ dispatch[p].notification.event_id = str(e)
     /\ dispatch[p].notification.user_id = str(b)
     /\ dispatch[p].notification.role = r

GrantDelivered(ws, b, e, r) ==
  \E i \in 1..Len(received[ws]) :
    /\ received[ws][i].type = "permission_granted"
    /\ received[ws][i].event_id = str(e)
    /\ received[ws][i].user_id = str(b)
    /\ received[ws][i].role = r

\* C15: when a grant of a role on event X to user B commits while the
\* listener of a process is running, the permission_granted message reaches
\* that listener, and every socket B has registered on that process
\* eventually receives a permission_granted notification carrying X's id, B's
\* id and the role (or the socket is unregistered first).
C15_GrantReachesConnectedUser ==
  /\ [][\A p \in Processes :
          ( /\ last'.op = "grant_event_permissions" /\ last'.result = OK
            /\ calls' = calls + 1
            /\ listening[p] ) =>
            \A i \in 1..Len(published') :
              \E j \in 1..Len(queue'[p]) : queue'[p][j] = published'[i]]_vars
  /\ \A p \in Processes, ws \in Sockets, b \in Users, e \in EventIds,
        r \in PermissionRole :
       (GrantPending(p, b, e, r) /\ ws \in ConnsOf(p, str(b)))
         ~> (GrantDelivered(ws, b, e, r) \/ ws \notin ConnsOf(p, str(b)))

\* the state reached by 'owner creates X; grants Editor to B; B updates X's
\* title': three calls were carried out, the last one an update of X by a user
\* whose role on X is Editor, and X carries the new title; X is the one event
\* that was created, so it was created by create_event (a batch creates
\* MaxBatch events or none)
ScenarioUpdated(x) ==
  /\ calls = 3
  /\ nextEventId = 2
  /\ last.op = "update_event" /\ last.result = OK /\ last.event_id = x
  /\ x \in DOMAIN events
  /\ RolesOf(permissions, last.user, x) = {EDITOR}
  /\ events[x].title = "B"

\* C16: in the scenario 'owner creates X; grants Editor to B; B updates X's
\* title' the history of X holds exactly 2 versions, a rollback to version 1
\* restores the original title, and the diff between version 1 and version 2
\* is non-empty and reflects the title change.
C16_ScenarioHistoryAndDiff ==
  [][\A x \in EventIds :
       ScenarioUpdated(x) =>
         /\ Len(histories[x]) = 2
         /\ "title" \in
              DOMAIN get_diff_between_versions(histories, <<x, 1>>, <<x, 2>>).diff
         /\ ( /\ last'.op = "rollback" /\ last'.result = OK
              /\ last'.event_id = x /\ last'.version_id = <<x, 1>> )
              => events'[x].title = "A"]_vars

\* C17: for every existing history version V the diff of V with itself is
\* empty.
C17_DiffWithItselfIsEmpty ==
  ( /\ last.op = "diff_versions" /\ last.result = OK
    /\ last.version_id = last.version_id2 ) => last.diff = << >>

\* a version was compared with itself: a version whose snapshot differs from
\* the snapshot of another version of the same event
C17_Witness ==
  /\ last.op = "diff_versions" /\ last.result = OK
  /\ last.version_id = last.version_id2
  /\ last.version_id \in VersionIds(histories)
  /\ \E o \in VersionIds(histories) :
       /\ o[1] = last.version_id[1]
       /\ histories[o[1]][o[2]].data #
            histories[last.version_id[1]][last.version_id[2]].data

\* C18: a rollback that names a version id that does not exist, or an event
\* id that does not exist, fails with NotFound (not ServiceUnavailable) and
\* changes neither the event nor its history.
C18_RollbackUnknownIsNotFound ==
  [][( /\ last'.op = "rollback" /\ last' # last
       /\ \/ last'.event_id \notin DOMAIN events
          \/ /\ get_event(events, permissions, last'.user, last'.event_id) = OK
             /\ get_event_version(histories, last'.version_id) = {} ) =>
       (last'.result = NotFound /\ UNCHANGED <<events, histories>>)]_vars

\* C19: get_diff_between_versions fails with NotFound (not
\* ServiceUnavailable) whenever one of the two version ids does not exist.
C19_DiffUnknownIsNotFound ==
  ( /\ last.op = "diff_versions"
    /\ get_event(events, permissions, last.user, last.event_id) = OK
    /\ \/ get_event_version(histories, last.version_id) = {}
       \/ get_event_version(histories, last.version_id2) = {} ) =>
    last.result = NotFound

\* C20: every event has end_time strictly after start_time, also after a
\* partial update of one of the two and after a rollback.
C20_EndAfterStart ==
  \A e \in DOMAIN events : events[e].end_time > events[e].start_time

\* C21: the Permission rows of an existing event are created, changed in role
\* or deleted only by an actor who holds the Owner role on that event at that
\* time; grant_event_permissions, update_permission and delete_permission by
\* any other actor fail with Forbidden and leave every Permission row
\* unchanged.
C21_OnlyOwnerManagesPermissions ==
  [][ /\ \A e \in DOMAIN events :
           RowsOfEvent(permissions', e) # RowsOfEvent(permissions, e) =>
             OWNER \in RolesOf(permissions, last'.user, e)
      /\ ( /\ last'.op \in {"grant_event_permissions", "update_permission",
                          "delete_permission"}
           /\ OWNER \notin RolesOf(permissions, last'.user, last'.event_id) ) =>
           /\ last'.result = Forbidden
           /\ permissions' = permissions ]_vars

\* an Editor of the event asked for a role change of a user who has a row on
\* it and was turned away
C21_Witness ==
  /\ last.op = "update_permission" /\ last.result = Forbidden
  /\ RolesOf(permissions, last.user, last.event_id) = {EDITOR}
  /\ PermRows(permissions, last.target_user_id, last.event_id) # {}
  /\ last.target_user_id # last.user

\* C22: update_permission whose target is the acting Owner fails with
\* Conflict and the actor's role stays as it was; update_permission by the
\* Owner for a target without a Permission row on the event fails with
\* NotFound; no Permission row is modified in either case.
C22_UpdateOwnRowOrMissingRow ==
  [][ ( /\ last'.op = "update_permission"
        /\ OWNER \in RolesOf(permissions, last'.user, last'.event_id) ) =>
        /\ (last'.target_user_id = last'.user) =>
             /\ last'.result = Conflict
             /\ RolesOf(permissions', last'.user, last'.event_id)
                  = RolesOf(permissions, last'.user, last'.event_id)
             /\ permissions' = permissions
        /\ (PermRows(permissions, last'.target_user_id, last'.event_id) = {}) =>
             /\ last'.result = NotFound
             /\ permissions' = permissions ]_vars

\* the Owner asked for a role of their own on an event that another user
\* shares, and was turned away with Conflict
C22_Witness ==
  /\ last.op = "update_permission" /\ last.result = Conflict
  /\ last.target_user_id = last.user
  /\ RolesOf(permissions, last.user, last.event_id) = {OWNER}
  /\ last.role # OWNER
  /\ \E u \in ShareUsers :
       u # last.user /\ PermRows(permissions, u, last.event_id) # {}

\* C23: two create_event calls of one owner with overlapping intervals that
\* run concurrently never both succeed: the event a create_event call commits
\* intersects no event its owner already has.
C23_ConcurrentCreatesExclude ==
  [][ \A e \in DOMAIN events' \ DOMAIN events :
        \A o \in DOMAIN events :
          events[o].owner_id = events'[e].owner_id =>
            ~Intersect(events[o].start_time, events[o].end_time,
                       events'[e].start_time, events'[e].end_time) ]_vars

\* C24: a failure to publish a notification during grant_event_permissions
\* or delete_event never changes the outcome of the operation: the call
\* returns success and the change it committed stays.
C24_PublishFailureIsSwallowed ==
  [][ ( /\ "fault" \in DOMAIN last'
        /\ last'.fault = "publish"
        /\ OWNER \in RolesOf(permissions, last'.user, last'.event_id) ) =>
        /\ (last'.op = "grant_event_permissions" /\ last'.result # Conflict) =>
             /\ last'.result = OK
             /\ \E l \in PermLists :
                  LET run == GrantLoop(permissions, last'.user,
                                       last'.event_id, l, << >>)
                  IN  /\ run.ok
                      /\ permissions' = permissions (+) SeqToBag(run.created)
        /\ (last'.op = "delete_event") =>
             /\ last'.result = OK
             /\ last'.event_id \notin DOMAIN events'
             /\ RowsOfEvent(permissions', last'.event_id) = {} ]_vars

\* the Owner shared the event with another user while the broker was down:
\* the call succeeded, the row is there and no message went out
C24_Witness ==
  /\ "fault" \in DOMAIN last /\ last.fault = "publish"
  /\ last.op = "grant_event_permissions" /\ last.result = OK
  /\ calls = 2
  /\ published = << >>
  /\ \E u \in ShareUsers :
       u # last.user /\ PermRows(permissions, u, last.event_id) # {}

\* C25: whenever a mutating operation fails with ServiceUnavailable because a
\* persistence call raised, at whatever point of the operation, none of its
\* writes is persisted.
C25_ServiceUnavailablePersistsNothing ==
  [][ ( /\ "fault" \in DOMAIN last'
        /\ last'.result = ServiceUnavailable ) => UNCHANGED db ]_vars

\* C26: a successful update_event on E adds exactly one History row to E: its
\* version is the previous maximum version + 1, its snapshot holds the fields
\* E had before the update and its changed_by is the actor; the History rows
\* E had before and the rows of the other events are unchanged.
C26_UpdateAddsOneHistoryRow ==
  [][ ( /\ last'.op = "update_event"
        /\ last'.result = OK
        /\ calls' = calls + 1 ) =>
        LET e == last'.event_id
            n == Len(histories[e])
        IN  /\ DOMAIN histories' = DOMAIN histories
            /\ Len(histories'[e]) = n + 1
            /\ SubSeq(histories'[e], 1, n) = histories[e]
            /\ histories'[e][n + 1].version = MaxVersion(histories[e]) + 1
            /\ histories'[e][n + 1].changed_by = last'.user
            /\ SameFields(Recorded(histories'[e][n + 1].data), events[e])
            /\ histories'[e][n + 1].data.owner_id = str(events[e].owner_id)
            /\ \A o \in DOMAIN histories \ {e} : histories'[o] = histories[o]
    ]_vars

\* an Editor who is not the owner changed an event that had a history
\* already; the event now differs from the snapshot the update recorded
C26_Witness ==
  /\ last.op = "update_event" /\ last.result = OK
  /\ last.event_id \in DOMAIN events
  /\ events[last.event_id].owner_id # last.user
  /\ Len(histories[last.event_id]) >= 2
  /\ ~SameFields(Recorded(histories[last.event_id]
                            [Len(histories[last.event_id])].data),
                 events[last.event_id])

\* C27: when an Editor who is not the owner of E updates E with both
\* start_time and end_time, the conflict check runs against the other events
\* of E's owner: the update is turned away exactly when the new interval
\* intersects one of them, and not merely because it intersects an event the
\* Editor owns.
C27_EditorConflictAgainstOwner ==
  [][\A u \in Users, e \in EventIds, d \in EventUpdate :
       ( /\ UpdateEvent(u, e, d)
         /\ e \in DOMAIN events
         /\ events[e].owner_id # u
         /\ RolesOf(permissions, u, e) = {EDITOR}
         /\ "start_time" \in DOMAIN d /\ "end_time" \in DOMAIN d )
       => ( last'.result # OK <=>
              \E o \in DOMAIN events \ {e} :
                /\ events[o].owner_id = events[e].owner_id
                /\ Intersect(events[o].start_time, events[o].end_time,
                             d["start_time"], d["end_time"]) )]_vars

\* C28: while one broker message is handled and nothing else changes the
\* registry, the notification is pushed to the connections registered locally
\* under the message's target user ids and to no other connection; a
\* connection whose push fails is removed from the registry and no other one
\* is; a failing push does not keep the remaining connections and users from
\* their push; when the message is done no user is left with an empty set.
C28_DispatchReachesTargets ==
  [][ /\ \A ws \in Sockets :
           received'[ws] # received[ws] =>
             \E p \in Processes :
               /\ dispatch'[p].pc = "sending"
               /\ received'[ws] = Append(received[ws], dispatch'[p].notification)
               /\ \E u \in dispatch'[p].targets : ws \in ConnsOf(p, u)
      /\ \A p \in Processes :
           dispatch[p].pc = "sending" =>
             /\ \A u \in DOMAIN connections[p] :
                  \A ws \in ConnsOf(p, u) \ ConnsOf(p, u)' :
                    /\ u \in dispatch[p].targets
                    /\ ws \in dispatch[p].failed
             /\ dispatch'[p] = Waiting =>
                  /\ listening'[p]
                  /\ logged' = logged
                  /\ \A u \in dispatch[p].targets :
                       \A ws \in ConnsOf(p, u)' :
                         /\ received'[ws] # << >>
                         /\ received'[ws][Len(received'[ws])]
                              = dispatch[p].notification
                  /\ \A k \in DOMAIN connections'[p] :
                       connections'[p][k] # {} ]_vars

\* a message for two users is being handled: the only socket of the first
\* user was broken and the user is noted for removal, the socket of the
\* second user has been sent the notification
C28_Witness ==
  \E p \in Processes :
    /\ dispatch[p].pc = "sending"
    /\ dispatch[p].to_remove # {}
    /\ dispatch[p].failed = {}
    /\ \E ws \in dispatch[p].sent :
         /\ received[ws] # << >>
         /\ received[ws][Len(received[ws])] = dispatch[p].notification

\* no key of a registry maps to an empty set
NoEmptyEntry ==
  \A p \in Processes : \A k \in DOMAIN connections[p] : connections[p][k] # {}

\* C29: register_ws adds the connection to the set of its user and
\* unregister_ws takes it out, each leaving the sets of the other users as
\* they are, so that after any sequence of such calls the registry maps a user
\* id to exactly the connections registered and not yet unregistered; the
\* calls leave no key with an empty set; unregistering a connection that is
\* not registered changes nothing; a registered connection can be
\* unregistered at any moment, whether or not a push to it has failed.
C29_RegistryTracksConnections ==
  /\ [][\A p \in Processes, u \in Users, ws \in Sockets :
          /\ register_ws(p, u, ws) =>
               /\ ConnsOf(p, str(u))' = ConnsOf(p, str(u)) \cup {ws}
               /\ \A o \in Users \ {u} : ConnsOf(p, str(o))' = ConnsOf(p, str(o))
               /\ NoEmptyEntry => NoEmptyEntry'
          /\ unregister_ws(p, str(u), ws) =>
               /\ ConnsOf(p, str(u))' = ConnsOf(p, str(u)) \ {ws}
               /\ \A o \in Users \ {u} : ConnsOf(p, str(o))' = ConnsOf(p, str(o))
               /\ NoEmptyEntry => NoEmptyEntry'
               /\ ws \notin ConnsOf(p, str(u)) => UNCHANGED vars]_vars
  /\ [](\A p \in Processes, u \in Users, ws \in Sockets :
          ws \in ConnsOf(p, str(u)) => ENABLED unregister_ws(p, str(u), ws))

\* the peer of a user's only connection went away and the handler has
\* unregistered the connection, while no message was ever pushed: the user's
\* key is gone and the other user's connection is still registered
C29_Witness ==
  \E p \in Processes, ws \in Sockets, u \in Users :
    /\ ws \in broken
    /\ calls = 0
    /\ \A k \in DOMAIN connections[p] : ws \notin connections[p][k]
    /\ str(u) \notin DOMAIN connections[p]
    /\ connections[p] # << >>
    /\ NoEmptyEntry

\* message m is held by the subscription of process p
InQueue(p, m) == \E i \in 1..Len(queue[p]) : queue[p][i] = m

\* C30: a broker message that is not valid JSON or lacks the target-user list
\* or the notification, or an error raised while one message is dispatched,
\* never ends the listener loop: a listener that is subscribed stays
\* subscribed, and every well-formed message its subscription holds is taken
\* and dispatched by it, whatever came before.
C30_ListenerSurvivesBadMessages ==
  /\ [][\A p \in Processes : listening[p] => listening'[p]]_vars
  /\ \A p \in Processes, n \in 1..MaxPushes :
       \A m \in { x \in ChannelMessages(n) : WellFormed(x) } :
         InQueue(p, m) ~> (~InQueue(p, m) /\ listening[p])

\* the listener has logged a payload error, is still
\* subscribed, and a socket has received the notification of the second
\* message, which came after the malformed one
C30_Witness ==
  \E p \in Processes, ws \in Sockets :
    /\ listening[p]
    /\ "payload" \in logged
    /\ queue[p] = << >>
    /\ dispatch[p] = Waiting
    /\ received[ws] = << [type |-> "message", seq |-> MaxPushes] >>

\* C31: when the listener task is cancelled at shutdown, wherever it is
\* suspended (waiting for a message, sleeping, or in the push of a dispatch),
\* it unsubscribes and closes its subscription, the task ends and the shutdown
\* goes on.
C31_CancelledListenerUnsubscribes ==
  \A p \in Processes :
    (dispatch[p].pc = "cancelling")
      ~> (dispatch[p].pc = "stopped" /\ ~listening[p] /\ queue[p] = << >>)

\* the listener was cancelled in the middle of a dispatch, after the push to
\* a first socket, and has ended unsubscribed
C31_Witness ==
  \E p \in Processes, ws \in Sockets :
    /\ dispatch[p].pc = "stopped"
    /\ ~listening[p]
    /\ dispatch[p].at = "sending"
    /\ received[ws] # << >>

\* C32: a successful grant_event_permissions publishes, with its commit and
\* not without it, exactly one permission_granted message per Permission row
\* it created, addressed to the grantee of that row alone and carrying the
\* row's role; the actor is never addressed, and a grant that fails or an
\* entry that is skipped publishes nothing.
C32_OneMessagePerCreatedRow ==
  [][ ( /\ last'.op = "grant_event_permissions"
        /\ "items" \in DOMAIN last'
        /\ (calls' # calls \/ last'.result # OK) ) =>
        LET new == permissions' (-) permissions
            e == last'.event_id
        IN  /\ last'.result # OK => (published' = << >> /\ new = EmptyBag)
            /\ Len(published') = BagCardinality(new)
            /\ \A r \in BagToSet(new) :
                 Cardinality({ i \in 1..Len(published') :
                                 published'[i].user_ids = {str(r.user_id)} }) = 1
            /\ \A i \in 1..Len(published') :
                 LET m == published'[i] IN
                   /\ m.notification.type = "permission_granted"
                   /\ m.notification.event_id = str(e)
                   /\ str(last'.user) \notin m.user_ids
                   /\ \E r \in BagToSet(new) :
                        /\ r.event_id = e
                        /\ m.user_ids = {str(r.user_id)}
                        /\ m.notification.user_id = str(r.user_id)
                        /\ m.notification.role = r.role ]_vars

\* a batch of two entries went through: the first names the actor and is
\* skipped, the second created a row, and one message was published
C32_Witness ==
  /\ last.op = "grant_event_permissions" /\ last.result = OK
  /\ "items" \in DOMAIN last
  /\ Len(last.items) = 2
  /\ last.items[1].user_id = last.user
  /\ last.items[2].user_id # last.user
  /\ Len(published) = 1
  /\ published[1].user_ids = {str(last.items[2].user_id)}

====
